---- MODULE Spec2Model ----
(***************************************************************************)
(* The ArcLang MCP server: the tool dispatcher (server.py call_tool and    *)
(* the tools/ handlers), the compiler facade and its process invoker       *)
(* (compiler/wrapper.py) and the generation facade (ai/generator.py).      *)
(*                                                                         *)
(* A Python str is a sequence of one-character strings; a character        *)
(* outside ASCII is written "<U+XXXX>".  A dict is a function on the set   *)
(* of its keys.  An argument value is a record [t, v]: its Python type and *)
(* its str().                                                              *)
(***************************************************************************)
EXTENDS Integers, Sequences, FiniteSets, TLC

----------------------------------------------------------------------------
(* the string literals of the source, as sequences of characters; in the
   comments the asterisks of the markdown are left out *)

\* string literals of server.py (call_tool and the catalogue of list_tools)
ServerLit ==
  [ p_compile |->   \* "arclang_compile"
      <<"a","r","c","l","a","n","g","_","c","o","m","p","i","l","e">>,
    p_generate |->   \* "arclang_generate"
      <<"a","r","c","l","a","n","g","_","g","e","n","e","r","a","t","e">>,
    p_safety |->   \* "arclang_safety"
      <<"a","r","c","l","a","n","g","_","s","a","f","e","t","y">>,
    p_git |->   \* "arclang_git"
      <<"a","r","c","l","a","n","g","_","g","i","t">>,
    p_plm |->   \* "arclang_plm"
      <<"a","r","c","l","a","n","g","_","p","l","m">>,
    compile |->   \* "arclang_compile"
      <<"a","r","c","l","a","n","g","_","c","o","m","p","i","l","e">>,
    validate |->   \* "arclang_validate"
      <<"a","r","c","l","a","n","g","_","v","a","l","i","d","a","t","e">>,
    trace_analysis |->   \* "arclang_trace_analysis"
      <<"a","r","c","l","a","n","g","_","t","r","a","c","e","_","a","n","a","l","y","s","i","s">>,
    export_diagram |->   \* "arclang_export_diagram"
      <<"a","r","c","l","a","n","g","_","e","x","p","o","r","t","_","d","i","a","g","r","a","m">>,
    info |->   \* "arclang_info"
      <<"a","r","c","l","a","n","g","_","i","n","f","o">>,
    generate_requirement |->   \* "arclang_generate_requirement"
      <<"a","r","c","l","a","n","g","_","g","e","n","e","r","a","t","e","_","r","e","q","u","i","r","e","m","e","n","t">>,
    generate_component |->   \* "arclang_generate_component"
      <<"a","r","c","l","a","n","g","_","g","e","n","e","r","a","t","e","_","c","o","m","p","o","n","e","n","t">>,
    suggest_architecture |->   \* "arclang_suggest_architecture"
      <<"a","r","c","l","a","n","g","_","s","u","g","g","e","s","t","_","a","r","c","h","i","t","e","c","t","u","r","e">>,
    safety_check |->   \* "arclang_safety_check"
      <<"a","r","c","l","a","n","g","_","s","a","f","e","t","y","_","c","h","e","c","k">>,
    hazard_analysis |->   \* "arclang_hazard_analysis"
      <<"a","r","c","l","a","n","g","_","h","a","z","a","r","d","_","a","n","a","l","y","s","i","s">>,
    git_merge |->   \* "arclang_git_merge"
      <<"a","r","c","l","a","n","g","_","g","i","t","_","m","e","r","g","e">>,
    unknown_tool |->   \* "Unknown tool: "
      <<"U","n","k","n","o","w","n"," ","t","o","o","l",":"," ">>,
    error_prefix |->   \* "Error: "
      <<"E","r","r","o","r",":"," ">> ]

\* string literals of the execute methods of tools/*.py
ToolsLit ==
  [ plm_sync |->   \* "arclang_plm_sync"
      <<"a","r","c","l","a","n","g","_","p","l","m","_","s","y","n","c">>,
    unknown_core |->   \* "Unknown core tool: "
      <<"U","n","k","n","o","w","n"," ","c","o","r","e"," ","t","o","o","l",":"," ">>,
    unknown_generation |->   \* "Unknown generation tool: "
      <<"U","n","k","n","o","w","n"," ","g","e","n","e","r","a","t","i","o","n"," ","t","o","o","l",":"," ">>,
    unknown_safety |->   \* "Unknown safety tool: "
      <<"U","n","k","n","o","w","n"," ","s","a","f","e","t","y"," ","t","o","o","l",":"," ">>,
    unknown_integration |->   \* "Unknown integration tool: "
      <<"U","n","k","n","o","w","n"," ","i","n","t","e","g","r","a","t","i","o","n"," ","t","o","o","l",":"," ">>,
    html |->   \* "html"
      <<"h","t","m","l">>,
    High |->   \* "High"
      <<"H","i","g","h">>,
    Logical |->   \* "Logical"
      <<"L","o","g","i","c","a","l">>,
    automotive |->   \* "automotive"
      <<"a","u","t","o","m","o","t","i","v","e">>,
    iso26262 |->   \* "iso26262"
      <<"i","s","o","2","6","2","6","2">>,
    pull |->   \* "pull"
      <<"p","u","l","l">>,
    push |->   \* "push"
      <<"p","u","s","h">> ]

\* string literals of compiler/wrapper.py
WrapperLit ==
  [ arclang |->   \* "arclang"
      <<"a","r","c","l","a","n","g">>,
    build |->   \* "build"
      <<"b","u","i","l","d">>,
    validate |->   \* "--validate"
      <<"-","-","v","a","l","i","d","a","t","e">>,
    optimize |->   \* "--optimize"
      <<"-","-","o","p","t","i","m","i","z","e">>,
    check |->   \* "check"
      <<"c","h","e","c","k">>,
    lint |->   \* "--lint"
      <<"-","-","l","i","n","t">>,
    strict |->   \* "--strict"
      <<"-","-","s","t","r","i","c","t">>,
    trace |->   \* "trace"
      <<"t","r","a","c","e">>,
    gaps |->   \* "--gaps"
      <<"-","-","g","a","p","s">>,
    matrix |->   \* "--matrix"
      <<"-","-","m","a","t","r","i","x">>,
    export |->   \* "export"
      <<"e","x","p","o","r","t">>,
    o |->   \* "-o"
      <<"-","o">>,
    f |->   \* "-f"
      <<"-","f">>,
    info |->   \* "info"
      <<"i","n","f","o">>,
    metrics |->   \* "--metrics"
      <<"-","-","m","e","t","r","i","c","s">>,
    detailed |->   \* "--detailed"
      <<"-","-","d","e","t","a","i","l","e","d">>,
    safety |->   \* "safety"
      <<"s","a","f","e","t","y">>,
    standard |->   \* "--standard"
      <<"-","-","s","t","a","n","d","a","r","d">>,
    report |->   \* "--report"
      <<"-","-","r","e","p","o","r","t">>,
    hara |->   \* "--hara"
      <<"-","-","h","a","r","a">>,
    plm |->   \* "plm"
      <<"p","l","m">>,
    system |->   \* "--system"
      <<"-","-","s","y","s","t","e","m">>,
    dot_html |->   \* ".html"
      <<".","h","t","m","l">>,
    timed_out |->   \* "Command timed out after "
      <<"C","o","m","m","a","n","d"," ","t","i","m","e","d"," ","o","u","t"," ","a","f","t","e","r"," ">>,
    seconds |->   \* " seconds"
      <<" ","s","e","c","o","n","d","s">>,
    Requirements |->   \* "Requirements:"
      <<"R","e","q","u","i","r","e","m","e","n","t","s",":">>,
    Components |->   \* "Components:"
      <<"C","o","m","p","o","n","e","n","t","s",":">>,
    Functions |->   \* "Functions:"
      <<"F","u","n","c","t","i","o","n","s",":">>,
    Traces |->   \* "Traces:"
      <<"T","r","a","c","e","s",":">>,
    traces |->   \* "traces:"
      <<"t","r","a","c","e","s",":">>,
    Coverage |->   \* "Coverage:"
      <<"C","o","v","e","r","a","g","e",":">>,
    coverage |->   \* "coverage:"
      <<"c","o","v","e","r","a","g","e",":">>,
    warning |->   \* "warning:"
      <<"w","a","r","n","i","n","g",":">>,
    error |->   \* "error:"
      <<"e","r","r","o","r",":">>,
    bad_int |->   \* "invalid literal for int() with base 10: "
      <<"i","n","v","a","l","i","d"," ","l","i","t","e","r","a","l"," ","f","o","r"," ","i","n","t","(",")"," ","w","i","t","h"," ","b","a","s","e"," ","1","0",":"," ">>,
    enoent |->   \* "[Errno 2] No such file or directory: "
      <<"[","E","r","r","n","o"," ","2","]"," ","N","o"," ","s","u","c","h"," ","f","i","l","e"," ","o","r"," ","d","i","r","e","c","t","o","r","y",":"," ">>,
    eacces |->   \* "[Errno 13] Permission denied: "
      <<"[","E","r","r","n","o"," ","1","3","]"," ","P","e","r","m","i","s","s","i","o","n"," ","d","e","n","i","e","d",":"," ">>,
    decode_error |->   \* "'utf-8' codec can't decode byte 0xff in position 0: invalid start byte"
      <<"'","u","t","f","-","8","'"," ","c","o","d","e","c"," ","c","a","n","'","t"," ","d","e","c","o","d","e"," ","b","y","t","e"," ","0","x","f","f"," ","i","n"," ","p","o","s","i","t","i","o","n"," ","0",":"," ","i","n","v","a","l","i","d"," ","s","t","a","r","t"," ","b","y","t","e">>,
    dot_zero |->   \* ".0"
      <<".","0">> ]

\* string literals of the reports of tools/core.py
CoreLit ==
  [ compile_ok |->   \* "<U+2705> Compilation successful\n\n"
      <<"<U+2705>"," ","C","o","m","p","i","l","a","t","i","o","n"," ","s","u","c","c","e","s","s","f","u","l","\n","\n">>,
    model |->   \* "Model: "
      <<"*","*","M","o","d","e","l","*","*",":"," ">>,
    requirements |->   \* "Requirements: "
      <<"*","*","R","e","q","u","i","r","e","m","e","n","t","s","*","*",":"," ">>,
    components |->   \* "Components: "
      <<"*","*","C","o","m","p","o","n","e","n","t","s","*","*",":"," ">>,
    functions |->   \* "Functions: "
      <<"*","*","F","u","n","c","t","i","o","n","s","*","*",":"," ">>,
    traces |->   \* "Traces: "
      <<"*","*","T","r","a","c","e","s","*","*",":"," ">>,
    output |->   \* "\nOutput: "
      <<"\n","*","*","O","u","t","p","u","t","*","*",":"," ">>,
    na |->   \* "N/A"
      <<"N","/","A">>,
    compile_failed |->   \* "<U+274C> Compilation failed\n\nErrors:\n"
      <<"<U+274C>"," ","C","o","m","p","i","l","a","t","i","o","n"," ","f","a","i","l","e","d","\n","\n","*","*","E","r","r","o","r","s","*","*",":","\n">>,
    validate_ok |->   \* "<U+2705> Validation passed\n\n"
      <<"<U+2705>"," ","V","a","l","i","d","a","t","i","o","n"," ","p","a","s","s","e","d","\n","\n">>,
    syntax |->   \* "Syntax: Valid\n"
      <<"*","*","S","y","n","t","a","x","*","*",":"," ","V","a","l","i","d","\n">>,
    semantics |->   \* "Semantics: Valid\n"
      <<"*","*","S","e","m","a","n","t","i","c","s","*","*",":"," ","V","a","l","i","d","\n">>,
    warnings_open |->   \* "\n<U+26A0><U+FE0F>  Warnings ("
      <<"\n","<U+26A0>","<U+FE0F>"," "," ","*","*","W","a","r","n","i","n","g","s","*","*"," ","(">>,
    count_close |->   \* "):\n"
      <<")",":","\n">>,
    item |->   \* "  - "
      <<" "," ","-"," ">>,
    validate_failed |->   \* "<U+274C> Validation failed\n\n"
      <<"<U+274C>"," ","V","a","l","i","d","a","t","i","o","n"," ","f","a","i","l","e","d","\n","\n">>,
    errors_open |->   \* "Errors ("
      <<"*","*","E","r","r","o","r","s","*","*"," ","(">>,
    trace_head |->   \* "<U+1F517> Traceability Analysis\n\n"
      <<"<U+1F517>"," ","*","*","T","r","a","c","e","a","b","i","l","i","t","y"," ","A","n","a","l","y","s","i","s","*","*","\n","\n">>,
    coverage |->   \* "Coverage: "
      <<"*","*","C","o","v","e","r","a","g","e","*","*",":"," ">>,
    percent |->   \* "%\n"
      <<"%","\n">>,
    total_traces |->   \* "Total Traces: "
      <<"*","*","T","o","t","a","l"," ","T","r","a","c","e","s","*","*",":"," ">>,
    gaps_open |->   \* "<U+26A0><U+FE0F>  Gaps Found ("
      <<"<U+26A0>","<U+FE0F>"," "," ","*","*","G","a","p","s"," ","F","o","u","n","d","*","*"," ","(">>,
    gaps_close |->   \* "):\n\n"
      <<")",":","\n","\n">>,
    good |->   \* "<U+2705> Good traceability coverage"
      <<"<U+2705>"," ","G","o","o","d"," ","t","r","a","c","e","a","b","i","l","i","t","y"," ","c","o","v","e","r","a","g","e">>,
    moderate |->   \* "<U+26A0><U+FE0F>  Moderate traceability coverage - consider adding more traces"
      <<"<U+26A0>","<U+FE0F>"," "," ","M","o","d","e","r","a","t","e"," ","t","r","a","c","e","a","b","i","l","i","t","y"," ","c","o","v","e","r","a","g","e"," ","-"," ","c","o","n","s","i","d","e","r"," ","a","d","d","i","n","g"," ","m","o","r","e"," ","t","r","a","c","e","s">>,
    low |->   \* "<U+274C> Low traceability coverage - significant gaps detected"
      <<"<U+274C>"," ","L","o","w"," ","t","r","a","c","e","a","b","i","l","i","t","y"," ","c","o","v","e","r","a","g","e"," ","-"," ","s","i","g","n","i","f","i","c","a","n","t"," ","g","a","p","s"," ","d","e","t","e","c","t","e","d">>,
    export_ok |->   \* "<U+2705> Diagram generated successfully\n\n"
      <<"<U+2705>"," ","D","i","a","g","r","a","m"," ","g","e","n","e","r","a","t","e","d"," ","s","u","c","c","e","s","s","f","u","l","l","y","\n","\n">>,
    format |->   \* "Format: "
      <<"*","*","F","o","r","m","a","t","*","*",":"," ">>,
    export_output |->   \* "Output: "
      <<"*","*","O","u","t","p","u","t","*","*",":"," ">>,
    export_failed |->   \* "<U+274C> Diagram generation failed\n\n"
      <<"<U+274C>"," ","D","i","a","g","r","a","m"," ","g","e","n","e","r","a","t","i","o","n"," ","f","a","i","l","e","d","\n","\n">>,
    info_head |->   \* "<U+1F4CA> Model Information\n\n"
      <<"<U+1F4CA>"," ","*","*","M","o","d","e","l"," ","I","n","f","o","r","m","a","t","i","o","n","*","*","\n","\n">>,
    path |->   \* "Path: "
      <<"*","*","P","a","t","h","*","*",":"," ">>,
    size |->   \* "Size: "
      <<"*","*","S","i","z","e","*","*",":"," ">>,
    kb |->   \* " KB\n\n"
      <<" ","K","B","\n","\n">>,
    metrics |->   \* "Metrics:\n"
      <<"*","*","M","e","t","r","i","c","s","*","*",":","\n">>,
    m_requirements |->   \* "  - Requirements: "
      <<" "," ","-"," ","R","e","q","u","i","r","e","m","e","n","t","s",":"," ">>,
    m_components |->   \* "  - Components: "
      <<" "," ","-"," ","C","o","m","p","o","n","e","n","t","s",":"," ">>,
    m_functions |->   \* "  - Functions: "
      <<" "," ","-"," ","F","u","n","c","t","i","o","n","s",":"," ">>,
    m_traces |->   \* "  - Traces: "
      <<" "," ","-"," ","T","r","a","c","e","s",":"," ">>,
    m_actors |->   \* "  - Actors: "
      <<" "," ","-"," ","A","c","t","o","r","s",":"," ">>,
    m_nodes |->   \* "  - Nodes: "
      <<" "," ","-"," ","N","o","d","e","s",":"," ">>,
    nl |->   \* "\n"
      <<"\n">>,
    none |->   \* "None"
      <<"N","o","n","e">> ]

\* string literals of the reports of tools/safety.py
SafetyLit ==
  [ check_head |->   \* "<U+1F6E1><U+FE0F>  Safety Compliance Check\n\n"
      <<"<U+1F6E1>","<U+FE0F>"," "," ","*","*","S","a","f","e","t","y"," ","C","o","m","p","l","i","a","n","c","e"," ","C","h","e","c","k","*","*","\n","\n">>,
    standard |->   \* "Standard: "
      <<"*","*","S","t","a","n","d","a","r","d","*","*",":"," ">>,
    model |->   \* "Model: "
      <<"*","*","M","o","d","e","l","*","*",":"," ">>,
    compliant |->   \* "<U+2705> Status: Compliant\n\n"
      <<"<U+2705>"," ","*","*","S","t","a","t","u","s","*","*",":"," ","C","o","m","p","l","i","a","n","t","\n","\n">>,
    non_compliant |->   \* "<U+274C> Status: Non-compliant\n\n"
      <<"<U+274C>"," ","*","*","S","t","a","t","u","s","*","*",":"," ","N","o","n","-","c","o","m","p","l","i","a","n","t","\n","\n">>,
    hara_head |->   \* "<U+26A0><U+FE0F>  Hazard Analysis (HARA)\n\n"
      <<"<U+26A0>","<U+FE0F>"," "," ","*","*","H","a","z","a","r","d"," ","A","n","a","l","y","s","i","s"," ","(","H","A","R","A",")","*","*","\n","\n">>,
    hazards |->   \* "Hazards Identified: "
      <<"*","*","H","a","z","a","r","d","s"," ","I","d","e","n","t","i","f","i","e","d","*","*",":"," ">> ]

\* string literals of the reports of tools/integration.py
IntegrationLit ==
  [ merge_head |->   \* "<U+1F500> Semantic Merge Analysis\n\n"
      <<"<U+1F500>"," ","*","*","S","e","m","a","n","t","i","c"," ","M","e","r","g","e"," ","A","n","a","l","y","s","i","s","*","*","\n","\n">>,
    clean |->   \* "<U+2705> Clean merge - No conflicts!\n\n"
      <<"<U+2705>"," ","*","*","C","l","e","a","n"," ","m","e","r","g","e","*","*"," ","-"," ","N","o"," ","c","o","n","f","l","i","c","t","s","!","\n","\n">>,
    merged |->   \* "Elements merged: "
      <<"*","*","E","l","e","m","e","n","t","s"," ","m","e","r","g","e","d","*","*",":"," ">>,
    conflicts |->   \* "<U+26A0><U+FE0F>  Conflicts detected: "
      <<"<U+26A0>","<U+FE0F>"," "," ","*","*","C","o","n","f","l","i","c","t","s"," ","d","e","t","e","c","t","e","d","*","*",":"," ">>,
    plm_head |->   \* "<U+1F504> PLM Synchronization\n\n"
      <<"<U+1F504>"," ","*","*","P","L","M"," ","S","y","n","c","h","r","o","n","i","z","a","t","i","o","n","*","*","\n","\n">>,
    system |->   \* "System: "
      <<"*","*","S","y","s","t","e","m","*","*",":"," ">>,
    operation |->   \* "Operation: "
      <<"*","*","O","p","e","r","a","t","i","o","n","*","*",":"," ">>,
    model |->   \* "Model: "
      <<"*","*","M","o","d","e","l","*","*",":"," ">>,
    sync_ok |->   \* "<U+2705> Synchronization successful\n\n"
      <<"<U+2705>"," ","S","y","n","c","h","r","o","n","i","z","a","t","i","o","n"," ","s","u","c","c","e","s","s","f","u","l","\n","\n">>,
    pulled |->   \* "Changes pulled: "
      <<"*","*","C","h","a","n","g","e","s"," ","p","u","l","l","e","d","*","*",":"," ">>,
    pushed |->   \* "Changes pushed: "
      <<"*","*","C","h","a","n","g","e","s"," ","p","u","s","h","e","d","*","*",":"," ">>,
    sync_failed |->   \* "<U+274C> Synchronization failed\n\n"
      <<"<U+274C>"," ","S","y","n","c","h","r","o","n","i","z","a","t","i","o","n"," ","f","a","i","l","e","d","\n","\n">> ]

\* string literals of the reports of tools/generation.py
GenerationLit ==
  [ req_head |->   \* "<U+2728> Generated Requirement\n\narc\n"
      <<"<U+2728>"," ","*","*","G","e","n","e","r","a","t","e","d"," ","R","e","q","u","i","r","e","m","e","n","t","*","*","\n","\n","<U+0060>","<U+0060>","<U+0060>","a","r","c","\n">>,
    code_close |->   \* "\n\n\n"
      <<"\n","<U+0060>","<U+0060>","<U+0060>","\n","\n">>,
    req_next |->   \* "Next Steps:\n1. Review the generated requirement\n2. Adjust safety level if needed\n3. Add to your model file\n4. Create traceability links to components"
      <<"*","*","N","e","x","t"," ","S","t","e","p","s","*","*",":","\n","1","."," ","R","e","v","i","e","w"," ","t","h","e"," ","g","e","n","e","r","a","t","e","d"," ","r","e","q","u","i","r","e","m","e","n","t","\n","2","."," ","A","d","j","u","s","t"," ","s","a","f","e","t","y"," ","l","e","v","e","l"," ","i","f"," ","n","e","e","d","e","d","\n","3","."," ","A","d","d"," ","t","o"," ","y","o","u","r"," ","m","o","d","e","l"," ","f","i","l","e","\n","4","."," ","C","r","e","a","t","e"," ","t","r","a","c","e","a","b","i","l","i","t","y"," ","l","i","n","k","s"," ","t","o"," ","c","o","m","p","o","n","e","n","t","s">>,
    comp_head |->   \* "<U+2728> Generated Component\n\narc\n"
      <<"<U+2728>"," ","*","*","G","e","n","e","r","a","t","e","d"," ","C","o","m","p","o","n","e","n","t","*","*","\n","\n","<U+0060>","<U+0060>","<U+0060>","a","r","c","\n">>,
    comp_next |->   \* "Next Steps:\n1. Review the component structure\n2. Add input/output ports if needed\n3. Add to your logical_architecture block\n4. Create traces to requirements"
      <<"*","*","N","e","x","t"," ","S","t","e","p","s","*","*",":","\n","1","."," ","R","e","v","i","e","w"," ","t","h","e"," ","c","o","m","p","o","n","e","n","t"," ","s","t","r","u","c","t","u","r","e","\n","2","."," ","A","d","d"," ","i","n","p","u","t","/","o","u","t","p","u","t"," ","p","o","r","t","s"," ","i","f"," ","n","e","e","d","e","d","\n","3","."," ","A","d","d"," ","t","o"," ","y","o","u","r"," ","l","o","g","i","c","a","l","_","a","r","c","h","i","t","e","c","t","u","r","e"," ","b","l","o","c","k","\n","4","."," ","C","r","e","a","t","e"," ","t","r","a","c","e","s"," ","t","o"," ","r","e","q","u","i","r","e","m","e","n","t","s">>,
    arch_head |->   \* "<U+1F4A1> Architecture Suggestions\n\n"
      <<"<U+1F4A1>"," ","*","*","A","r","c","h","i","t","e","c","t","u","r","e"," ","S","u","g","g","e","s","t","i","o","n","s","*","*","\n","\n">>,
    domain |->   \* "Domain: "
      <<"*","*","D","o","m","a","i","n","*","*",":"," ">>,
    based_on |->   \* "Based on: "
      <<"*","*","B","a","s","e","d"," ","o","n","*","*",":"," ">>,
    n_requirements |->   \* " requirements\n\n"
      <<" ","r","e","q","u","i","r","e","m","e","n","t","s","\n","\n">>,
    suggested |->   \* "Suggested Components:\n\n"
      <<"*","*","S","u","g","g","e","s","t","e","d"," ","C","o","m","p","o","n","e","n","t","s","*","*",":","\n","\n">>,
    name_open |->   \* ". "
      <<"."," ","*","*">>,
    type_open |->   \* " ("
      <<"*","*"," ","(">>,
    type_close |->   \* ")\n"
      <<")","\n">>,
    purpose |->   \* "   - Purpose: "
      <<" "," "," ","-"," ","P","u","r","p","o","s","e",":"," ">>,
    safety |->   \* "   - Safety: "
      <<" "," "," ","-"," ","S","a","f","e","t","y",":"," ">>,
    patterns |->   \* "\nRecommended Patterns:\n"
      <<"\n","*","*","R","e","c","o","m","m","e","n","d","e","d"," ","P","a","t","t","e","r","n","s","*","*",":","\n">>,
    item |->   \* "  - "
      <<" "," ","-"," ">>,
    arch_next |->   \* "\nNext Steps:\n1. Review suggested architecture\n2. Refine based on your specific needs\n3. Generate individual components\n4. Establish data flows and interfaces"
      <<"\n","*","*","N","e","x","t"," ","S","t","e","p","s","*","*",":","\n","1","."," ","R","e","v","i","e","w"," ","s","u","g","g","e","s","t","e","d"," ","a","r","c","h","i","t","e","c","t","u","r","e","\n","2","."," ","R","e","f","i","n","e"," ","b","a","s","e","d"," ","o","n"," ","y","o","u","r"," ","s","p","e","c","i","f","i","c"," ","n","e","e","d","s","\n","3","."," ","G","e","n","e","r","a","t","e"," ","i","n","d","i","v","i","d","u","a","l"," ","c","o","m","p","o","n","e","n","t","s","\n","4","."," ","E","s","t","a","b","l","i","s","h"," ","d","a","t","a"," ","f","l","o","w","s"," ","a","n","d"," ","i","n","t","e","r","f","a","c","e","s">> ]

\* string literals of ai/generator.py (fallback templates)
GeneratorLit ==
  [ req_open |->   \* "requirement ""
      <<"r","e","q","u","i","r","e","m","e","n","t"," ","\"">>,
    req_desc |->   \* "" {\n    description: ""
      <<"\""," ","{","\n"," "," "," "," ","d","e","s","c","r","i","p","t","i","o","n",":"," ","\"">>,
    priority |->   \* ""\n    priority: ""
      <<"\"","\n"," "," "," "," ","p","r","i","o","r","i","t","y",":"," ","\"">>,
    after_priority |->   \* ""\n    "
      <<"\"","\n"," "," "," "," ">>,
    safety_open |->   \* "safety_level: ""
      <<"s","a","f","e","t","y","_","l","e","v","e","l",":"," ","\"">>,
    quote |->   \* """
      <<"\"">>,
    safety_tbd |->   \* "// safety_level: "TBD""
      <<"/","/"," ","s","a","f","e","t","y","_","l","e","v","e","l",":"," ","\"","T","B","D","\"">>,
    req_tail |->   \* "\n    type: "Functional"\n    verification_method: "Test"\n}"
      <<"\n"," "," "," "," ","t","y","p","e",":"," ","\"","F","u","n","c","t","i","o","n","a","l","\"","\n"," "," "," "," ","v","e","r","i","f","i","c","a","t","i","o","n","_","m","e","t","h","o","d",":"," ","\"","T","e","s","t","\"","\n","}">>,
    comp_open |->   \* "component ""
      <<"c","o","m","p","o","n","e","n","t"," ","\"">>,
    comp_id |->   \* "" {\n    id: ""
      <<"\""," ","{","\n"," "," "," "," ","i","d",":"," ","\"">>,
    comp_type |->   \* ""\n    type: ""
      <<"\"","\n"," "," "," "," ","t","y","p","e",":"," ","\"">>,
    comp_desc |->   \* ""\n    description: ""
      <<"\"","\n"," "," "," "," ","d","e","s","c","r","i","p","t","i","o","n",":"," ","\"">>,
    comp_tail |->   \* "\n    \n    function "Process" {\n        id: "LF-PROCESS"\n        inputs: ["input_data"]\n        outputs: ["output_data"]\n    }\n}"
      <<"\n"," "," "," "," ","\n"," "," "," "," ","f","u","n","c","t","i","o","n"," ","\"","P","r","o","c","e","s","s","\""," ","{","\n"," "," "," "," "," "," "," "," ","i","d",":"," ","\"","L","F","-","P","R","O","C","E","S","S","\"","\n"," "," "," "," "," "," "," "," ","i","n","p","u","t","s",":"," ","[","\"","i","n","p","u","t","_","d","a","t","a","\"","]","\n"," "," "," "," "," "," "," "," ","o","u","t","p","u","t","s",":"," ","[","\"","o","u","t","p","u","t","_","d","a","t","a","\"","]","\n"," "," "," "," ","}","\n","}">>,
    req_prefix |->   \* "REQ-"
      <<"R","E","Q","-">>,
    lc_prefix |->   \* "LC-"
      <<"L","C","-">>,
    id_suffix |->   \* "-001"
      <<"-","0","0","1">>,
    sensor |->   \* "Sensor Interface"
      <<"S","e","n","s","o","r"," ","I","n","t","e","r","f","a","c","e">>,
    sensor_desc |->   \* "Handles sensor data"
      <<"H","a","n","d","l","e","s"," ","s","e","n","s","o","r"," ","d","a","t","a">>,
    controller |->   \* "Controller"
      <<"C","o","n","t","r","o","l","l","e","r">>,
    controller_desc |->   \* "Main control logic"
      <<"M","a","i","n"," ","c","o","n","t","r","o","l"," ","l","o","g","i","c">>,
    actuator |->   \* "Actuator Interface"
      <<"A","c","t","u","a","t","o","r"," ","I","n","t","e","r","f","a","c","e">>,
    actuator_desc |->   \* "Controls actuators"
      <<"C","o","n","t","r","o","l","s"," ","a","c","t","u","a","t","o","r","s">>,
    layered |->   \* "Layered Architecture"
      <<"L","a","y","e","r","e","d"," ","A","r","c","h","i","t","e","c","t","u","r","e">>,
    spa |->   \* "Sense-Process-Actuate"
      <<"S","e","n","s","e","-","P","r","o","c","e","s","s","-","A","c","t","u","a","t","e">>,
    no_client |->   \* "'AIGenerator' object has no attribute 'client'"
      <<"'","A","I","G","e","n","e","r","a","t","o","r","'"," ","o","b","j","e","c","t"," ","h","a","s"," ","n","o"," ","a","t","t","r","i","b","u","t","e"," ","'","c","l","i","e","n","t","'">>,
    anthropic |->   \* "anthropic"
      <<"a","n","t","h","r","o","p","i","c">>,
    index_error |->   \* "list index out of range"
      <<"l","i","s","t"," ","i","n","d","e","x"," ","o","u","t"," ","o","f"," ","r","a","n","g","e">>,
    connection_error |->   \* "Connection error."
      <<"C","o","n","n","e","c","t","i","o","n"," ","e","r","r","o","r",".">>,
    list_no_get |->   \* "'list' object has no attribute 'get'"
      <<"'","l","i","s","t","'"," ","o","b","j","e","c","t"," ","h","a","s"," ","n","o"," ","a","t","t","r","i","b","u","t","e"," ","'","g","e","t","'">> ]

\* the enumerated values of the input schemas of list_tools (server.py)
SchemaLit ==
  [ capella |->   \* "capella"
      <<"c","a","p","e","l","l","a">>,
    json |->   \* "json"
      <<"j","s","o","n">>,
    yaml |->   \* "yaml"
      <<"y","a","m","l">>,
    xml |->   \* "xml"
      <<"x","m","l">>,
    markdown |->   \* "markdown"
      <<"m","a","r","k","d","o","w","n">>,
    html |->   \* "html"
      <<"h","t","m","l">>,
    pdf |->   \* "pdf"
      <<"p","d","f">>,
    ASIL_A |->   \* "ASIL_A"
      <<"A","S","I","L","_","A">>,
    ASIL_B |->   \* "ASIL_B"
      <<"A","S","I","L","_","B">>,
    ASIL_C |->   \* "ASIL_C"
      <<"A","S","I","L","_","C">>,
    ASIL_D |->   \* "ASIL_D"
      <<"A","S","I","L","_","D">>,
    DAL_A |->   \* "DAL_A"
      <<"D","A","L","_","A">>,
    DAL_B |->   \* "DAL_B"
      <<"D","A","L","_","B">>,
    DAL_C |->   \* "DAL_C"
      <<"D","A","L","_","C">>,
    DAL_D |->   \* "DAL_D"
      <<"D","A","L","_","D">>,
    SIL_1 |->   \* "SIL_1"
      <<"S","I","L","_","1">>,
    SIL_2 |->   \* "SIL_2"
      <<"S","I","L","_","2">>,
    SIL_3 |->   \* "SIL_3"
      <<"S","I","L","_","3">>,
    SIL_4 |->   \* "SIL_4"
      <<"S","I","L","_","4">>,
    Critical |->   \* "Critical"
      <<"C","r","i","t","i","c","a","l">>,
    High |->   \* "High"
      <<"H","i","g","h">>,
    Medium |->   \* "Medium"
      <<"M","e","d","i","u","m">>,
    Low |->   \* "Low"
      <<"L","o","w">>,
    Logical |->   \* "Logical"
      <<"L","o","g","i","c","a","l">>,
    Physical |->   \* "Physical"
      <<"P","h","y","s","i","c","a","l">>,
    Operational |->   \* "Operational"
      <<"O","p","e","r","a","t","i","o","n","a","l">>,
    automotive |->   \* "automotive"
      <<"a","u","t","o","m","o","t","i","v","e">>,
    aerospace |->   \* "aerospace"
      <<"a","e","r","o","s","p","a","c","e">>,
    defense |->   \* "defense"
      <<"d","e","f","e","n","s","e">>,
    industrial |->   \* "industrial"
      <<"i","n","d","u","s","t","r","i","a","l">>,
    iso26262 |->   \* "iso26262"
      <<"i","s","o","2","6","2","6","2">>,
    do178c |->   \* "do178c"
      <<"d","o","1","7","8","c">>,
    iec61508 |->   \* "iec61508"
      <<"i","e","c","6","1","5","0","8">> ]

\* the argument names the handlers read, as text (for str(KeyError))
KeyLit ==
  [ model_path |->   \* "model_path"
      <<"m","o","d","e","l","_","p","a","t","h">>,
    standard |->   \* "standard"
      <<"s","t","a","n","d","a","r","d">>,
    description |->   \* "description"
      <<"d","e","s","c","r","i","p","t","i","o","n">>,
    requirements |->   \* "requirements"
      <<"r","e","q","u","i","r","e","m","e","n","t","s">>,
    base_path |->   \* "base_path"
      <<"b","a","s","e","_","p","a","t","h">>,
    ours_path |->   \* "ours_path"
      <<"o","u","r","s","_","p","a","t","h">>,
    theirs_path |->   \* "theirs_path"
      <<"t","h","e","i","r","s","_","p","a","t","h">>,
    system |->   \* "system"
      <<"s","y","s","t","e","m">> ]

\* string literals of utils/config.py (load_config defaults)
ConfigLit ==
  [ build_dir |->   \* "build/"
      <<"b","u","i","l","d","/">>,
    arclang |->   \* "arclang"
      <<"a","r","c","l","a","n","g">>,
    anthropic |->   \* "anthropic"
      <<"a","n","t","h","r","o","p","i","c">>,
    model |->   \* "claude-3-5-sonnet-20241022"
      <<"c","l","a","u","d","e","-","3","-","5","-","s","o","n","n","e","t","-","2","0","2","4","1","0","2","2">>,
    temperature |->   \* "0.3"
      <<"0",".","3">>,
    iso26262 |->   \* "iso26262"
      <<"i","s","o","2","6","2","6","2">> ]

\* the texts the environment supplies: tool names and argument values of the client, output of the binary, replies of the backend, the installation
In ==
  [ workspace |->   \* "/ws"
      <<"/","w","s">>,
    api_key |->   \* "sk-test"
      <<"s","k","-","t","e","s","t">>,
    openai |->   \* "openai"
      <<"o","p","e","n","a","i">>,
    env_binary |->   \* "/opt/arclang/bin/arclang"
      <<"/","o","p","t","/","a","r","c","l","a","n","g","/","b","i","n","/","a","r","c","l","a","n","g">>,
    file_binary |->   \* "/usr/local/bin/arclang"
      <<"/","u","s","r","/","l","o","c","a","l","/","b","i","n","/","a","r","c","l","a","n","g">>,
    file_key |->   \* "sk-file"
      <<"s","k","-","f","i","l","e">>,
    rel_path |->   \* "model.arc"
      <<"m","o","d","e","l",".","a","r","c">>,
    abs_path |->   \* "/srv/brake.arc"
      <<"/","s","r","v","/","b","r","a","k","e",".","a","r","c">>,
    out_path |->   \* "out/d.svg"
      <<"o","u","t","/","d",".","s","v","g">>,
    yes |->   \* "yes"
      <<"y","e","s">>,
    bogus |->   \* "bogus"
      <<"b","o","g","u","s">>,
    brake |->   \* "brake pressure must not exceed limit"
      <<"b","r","a","k","e"," ","p","r","e","s","s","u","r","e"," ","m","u","s","t"," ","n","o","t"," ","e","x","c","e","e","d"," ","l","i","m","i","t">>,
    urgent |->   \* "Urgent"
      <<"U","r","g","e","n","t">>,
    marine |->   \* "marine"
      <<"m","a","r","i","n","e">>,
    doors |->   \* "doors"
      <<"d","o","o","r","s">>,
    compile_x |->   \* "arclang_compile_x"
      <<"a","r","c","l","a","n","g","_","c","o","m","p","i","l","e","_","x">>,
    generate_x |->   \* "arclang_generate_x"
      <<"a","r","c","l","a","n","g","_","g","e","n","e","r","a","t","e","_","x">>,
    safety_x |->   \* "arclang_safety_x"
      <<"a","r","c","l","a","n","g","_","s","a","f","e","t","y","_","x">>,
    git_x |->   \* "arclang_git_x"
      <<"a","r","c","l","a","n","g","_","g","i","t","_","x">>,
    plm_x |->   \* "arclang_plm_x"
      <<"a","r","c","l","a","n","g","_","p","l","m","_","x">>,
    other |->   \* "list_models"
      <<"l","i","s","t","_","m","o","d","e","l","s">>,
    metrics |->   \* "Requirements: 12\nComponents: 5\n"
      <<"R","e","q","u","i","r","e","m","e","n","t","s",":"," ","1","2","\n","C","o","m","p","o","n","e","n","t","s",":"," ","5","\n">>,
    coverage |->   \* "Coverage: 85%\nTraces: 3\n"
      <<"C","o","v","e","r","a","g","e",":"," ","8","5","%","\n","T","r","a","c","e","s",":"," ","3","\n">>,
    bad_metric |->   \* "Requirements: n/a\n"
      <<"R","e","q","u","i","r","e","m","e","n","t","s",":"," ","n","/","a","\n">>,
    warn |->   \* "warning: unused port\n"
      <<"w","a","r","n","i","n","g",":"," ","u","n","u","s","e","d"," ","p","o","r","t","\n">>,
    err |->   \* "error: missing trace for REQ-001"
      <<"e","r","r","o","r",":"," ","m","i","s","s","i","n","g"," ","t","r","a","c","e"," ","f","o","r"," ","R","E","Q","-","0","0","1">>,
    reply_req |->   \* " requirement "REQ-BRK-001" {}\n"
      <<" ","r","e","q","u","i","r","e","m","e","n","t"," ","\"","R","E","Q","-","B","R","K","-","0","0","1","\""," ","{","}","\n">>,
    reply_obj |->   \* "{}"
      <<"{","}">>,
    reply_list |->   \* "[]"
      <<"[","]">>,
    blank |->   \* "  "
      <<" "," ">>,
    req_like |->   \* "REQ-RS-001 shall hold"
      <<"R","E","Q","-","R","S","-","0","0","1"," ","s","h","a","l","l"," ","h","o","l","d">>,
    over_coverage |->   \* "Coverage: 150%\n"
      <<"C","o","v","e","r","a","g","e",":"," ","1","5","0","%","\n">>,
    neg_coverage |->   \* "coverage: -5%\n"
      <<"c","o","v","e","r","a","g","e",":"," ","-","5","%","\n">>,
    warn_mixed |->   \* "note: 2 ports\nWARNING: unused port\n"
      <<"n","o","t","e",":"," ","2"," ","p","o","r","t","s","\n","W","A","R","N","I","N","G",":"," ","u","n","u","s","e","d"," ","p","o","r","t","\n">>,
    note_err |->   \* "note: see build log\nError: missing trace for REQ-001"
      <<"n","o","t","e",":"," ","s","e","e"," ","b","u","i","l","d"," ","l","o","g","\n","E","r","r","o","r",":"," ","m","i","s","s","i","n","g"," ","t","r","a","c","e"," ","f","o","r"," ","R","E","Q","-","0","0","1">> ]

----------------------------------------------------------------------------
(* Python str operations *)

Lowercase ==
  <<"a","b","c","d","e","f","g","h","i","j","k","l","m",
    "n","o","p","q","r","s","t","u","v","w","x","y","z">>

Uppercase ==
  <<"A","B","C","D","E","F","G","H","I","J","K","L","M",
    "N","O","P","Q","R","S","T","U","V","W","X","Y","Z">>

Digits ==
  <<"0","1","2","3","4","5","6","7","8","9">>

Whitespace ==
  {" ", "\n", "\t", "\r"}

\* str.startswith
StartsWith(s, p) ==
  Len(s) >= Len(p) /\ SubSeq(s, 1, Len(p)) = p

\* the operator `in` on two str
Contains(s, p) ==
  \E i \in 1..(Len(s) - Len(p) + 1) : SubSeq(s, i, i + Len(p) - 1) = p

UpperChar(ch) ==
  IF \E i \in 1..26 : Lowercase[i] = ch
    THEN Uppercase[CHOOSE i \in 1..26 : Lowercase[i] = ch]
    ELSE ch

LowerChar(ch) ==
  IF \E i \in 1..26 : Uppercase[i] = ch
    THEN Lowercase[CHOOSE i \in 1..26 : Uppercase[i] = ch]
    ELSE ch

\* str.upper, str.lower
Upper(s) ==
  [i \in 1..Len(s) |-> UpperChar(s[i])]

Lower(s) ==
  [i \in 1..Len(s) |-> LowerChar(s[i])]

\* str.capitalize
Capitalize(s) ==
  [i \in 1..Len(s) |-> IF i = 1 THEN UpperChar(s[i]) ELSE LowerChar(s[i])]

\* str.strip
Strip(s) ==
  LET keep == {i \in 1..Len(s) : s[i] \notin Whitespace}
  IN  IF keep = {} THEN <<>>
      ELSE SubSeq(s, CHOOSE i \in keep : \A j \in keep : i <= j,
                     CHOOSE i \in keep : \A j \in keep : i >= j)

\* str.rstrip(ch)
RStrip(s, ch) ==
  LET keep == {i \in 1..Len(s) : s[i] # ch}
  IN  IF keep = {} THEN <<>>
      ELSE SubSeq(s, 1, CHOOSE i \in keep : \A j \in keep : i >= j)

\* str.split(sep) for a one-character separator
RECURSIVE Split(_, _)
Split(s, sep) ==
  LET at == {i \in 1..Len(s) : s[i] = sep}
  IN  IF at = {} THEN <<s>>
      ELSE LET i == CHOOSE k \in at : \A j \in at : k <= j
           IN  <<SubSeq(s, 1, i - 1)>> \o Split(SubSeq(s, i + 1, Len(s)), sep)

\* str.join
RECURSIVE Join(_, _)
Join(parts, sep) ==
  IF parts = <<>> THEN <<>>
  ELSE IF Len(parts) = 1 THEN parts[1]
  ELSE parts[1] \o sep \o Join(Tail(parts), sep)

\* str.split() without a separator: the words between runs of whitespace
RECURSIVE Words(_)
Words(s) ==
  LET t == Strip(s)
      ws == {i \in 1..Len(t) : t[i] \in Whitespace}
  IN  IF t = <<>> THEN <<>>
      ELSE IF ws = {} THEN <<t>>
      ELSE LET i == CHOOSE k \in ws : \A j \in ws : k <= j
           IN  <<SubSeq(t, 1, i - 1)>> \o Words(SubSeq(t, i + 1, Len(t)))

\* a list comprehension with a condition: the elements of s in `keep`, in order
RECURSIVE Filter(_, _)
Filter(s, keep) ==
  IF s = <<>> THEN <<>>
  ELSE (IF Head(s) \in keep THEN <<Head(s)>> ELSE <<>>) \o Filter(Tail(s), keep)

\* str(n) for an int
RECURSIVE IntStr(_)
IntStr(n) ==
  IF n < 0 THEN <<"-">> \o IntStr(-n)
  ELSE IF n < 10 THEN <<Digits[n + 1]>>
  ELSE IntStr(n \div 10) \o <<Digits[(n % 10) + 1]>>

RECURSIVE DigitsValue(_)
DigitsValue(s) ==
  IF s = <<>> THEN 0
  ELSE 10 * DigitsValue(SubSeq(s, 1, Len(s) - 1))
       + ((CHOOSE i \in 1..10 : Digits[i] = s[Len(s)]) - 1)

\* int(s): [ok, val]; ok is FALSE where int raises ValueError.  int strips
\* whitespace, takes one sign and single underscores between digits.
ParseInt(s) ==
  LET t    == Strip(s)
      sign == t # <<>> /\ t[1] \in {"+", "-"}
      body == IF sign THEN Tail(t) ELSE t
      isD(ch) == \E i \in 1..10 : Digits[i] = ch
      wellFormed ==
        /\ body # <<>>
        /\ \A i \in 1..Len(body) : isD(body[i]) \/ body[i] = "_"
        /\ isD(body[1]) /\ isD(body[Len(body)])
        /\ \A i \in 1..(Len(body) - 1) : ~(body[i] = "_" /\ body[i + 1] = "_")
      digs == Filter(body, {Digits[i] : i \in 1..10})
      mag  == DigitsValue(digs)
  IN  IF wellFormed
        THEN [ok |-> TRUE, val |-> IF sign /\ t[1] = "-" THEN -mag ELSE mag]
        ELSE [ok |-> FALSE, val |-> 0]

\* repr(s) of a str without quotes or escapes
Repr(s) ==
  <<"'">> \o s \o <<"'">>

----------------------------------------------------------------------------
(* Python values *)

\* an argument value: its type and its str()
StrVal(s) ==
  [t |-> "str", v |-> s]

BoolVal(b) ==
  [t |-> "bool", v |-> IF b THEN <<"T","r","u","e">> ELSE <<"F","a","l","s","e">>]

\* a list of str, kept by its length (len(requirements) is all the code reads)
ListVal(n) ==
  [t |-> "list", v |-> IntStr(n)]

IntVal(n) ==
  [t |-> "int", v |-> IntStr(n)]

\* a float, kept by its str()
FloatVal(s) ==
  [t |-> "float", v |-> s]

NoneVal ==
  [t |-> "none", v |-> <<"N","o","n","e">>]

\* the truth value of an object in `if x:`
Truthy(x) ==
  CASE x.t = "bool" -> x.v = <<"T","r","u","e">>
    [] x.t = "str"  -> x.v # <<>>
    [] x.t = "list" -> x.v # <<"0">>
    [] x.t = "int"  -> x.v # <<"0">>
    [] x.t = "float" -> TRUE
    [] OTHER        -> FALSE

\* dict.get(key, default)
Get(d, key, default) ==
  IF key \in DOMAIN d THEN d[key] ELSE default

\* d[key] = val on a copy of d
Put(d, key, val) ==
  [k \in DOMAIN d \cup {key} |-> IF k = key THEN val ELSE d[k]]

EmptyDict ==
  [k \in {} |-> 0]

\* str(KeyError(key)): the repr of the key
KeyErrorStr(key) ==
  Repr(key)

----------------------------------------------------------------------------
(* pathlib.Path, kept as its str() *)

RECURSIVE PathParts(_)
PathParts(parts) ==
  IF parts = <<>> THEN <<>>
  ELSE (IF Head(parts) \in {<<>>, <<".">>} THEN <<>> ELSE <<Head(parts)>>)
       \o PathParts(Tail(parts))

\* Path(s): empty and "." components are dropped, "" becomes "."
Path(s) ==
  LET parts == PathParts(Split(s, "/"))
  IN  IF StartsWith(s, <<"/">>) THEN <<"/">> \o Join(parts, <<"/">>)
      ELSE IF parts = <<>> THEN <<".">>
      ELSE Join(parts, <<"/">>)

is_absolute(p) ==
  StartsWith(p, <<"/">>)

\* root / p for a relative p
PathJoin(root, p) ==
  IF p = <<".">> THEN root ELSE Path(root \o <<"/">> \o p)

\* Path.name: the last component
PathName(p) ==
  LET parts == PathParts(Split(p, "/"))
  IN  IF parts = <<>> THEN <<>> ELSE parts[Len(parts)]

\* Path.suffix: from the last dot of the name, unless it leads or ends the name
PathSuffix(p) ==
  LET name == PathName(p)
      dots == {i \in 1..Len(name) : name[i] = "."}
      last == CHOOSE i \in dots : \A j \in dots : i >= j
  IN  IF dots = {} THEN <<>>
      ELSE IF 1 < last /\ last < Len(name) THEN SubSeq(name, last, Len(name))
      ELSE <<>>

\* Path.with_suffix(suffix) of a path with a name
with_suffix(p, suffix) ==
  SubSeq(p, 1, Len(p) - Len(PathSuffix(p))) \o suffix

----------------------------------------------------------------------------
(* server.py: the catalogue of list_tools *)

Prop(type, enum) ==
  [type |-> type, enum |-> enum]

\* the Tool list of list_tools: name, inputSchema properties (type, enum), required
list_tools ==
  << [ name |-> ServerLit.compile,
       properties |-> [ model_path |-> Prop("string", {}),
                        validate   |-> Prop("boolean", {}),
                        optimize   |-> Prop("boolean", {}) ],
       required |-> {"model_path"} ],
     [ name |-> ServerLit.validate,
       properties |-> [ model_path |-> Prop("string", {}),
                        strict     |-> Prop("boolean", {}) ],
       required |-> {"model_path"} ],
     [ name |-> ServerLit.trace_analysis,
       properties |-> [ model_path |-> Prop("string", {}),
                        show_gaps  |-> Prop("boolean", {}),
                        matrix     |-> Prop("boolean", {}) ],
       required |-> {"model_path"} ],
     [ name |-> ServerLit.export_diagram,
       properties |-> [ model_path  |-> Prop("string", {}),
                        format      |-> Prop("string",
                          { SchemaLit.capella, SchemaLit.json, SchemaLit.yaml, SchemaLit.xml,
                            SchemaLit.markdown, SchemaLit.html, SchemaLit.pdf }),
                        output_path |-> Prop("string", {}) ],
       required |-> {"model_path"} ],
     [ name |-> ServerLit.info,
       properties |-> [ model_path |-> Prop("string", {}),
                        detailed   |-> Prop("boolean", {}) ],
       required |-> {"model_path"} ],
     [ name |-> ServerLit.generate_requirement,
       properties |-> [ description  |-> Prop("string", {}),
                        safety_level |-> Prop("string",
                          { SchemaLit.ASIL_A, SchemaLit.ASIL_B, SchemaLit.ASIL_C, SchemaLit.ASIL_D,
                            SchemaLit.DAL_A, SchemaLit.DAL_B, SchemaLit.DAL_C, SchemaLit.DAL_D,
                            SchemaLit.SIL_1, SchemaLit.SIL_2, SchemaLit.SIL_3, SchemaLit.SIL_4 }),
                        priority     |-> Prop("string",
                          { SchemaLit.Critical, SchemaLit.High, SchemaLit.Medium, SchemaLit.Low }) ],
       required |-> {"description"} ],
     [ name |-> ServerLit.generate_component,
       properties |-> [ description    |-> Prop("string", {}),
                        component_type |-> Prop("string",
                          { SchemaLit.Logical, SchemaLit.Physical, SchemaLit.Operational }),
                        safety_level   |-> Prop("string", {}) ],
       required |-> {"description"} ],
     [ name |-> ServerLit.suggest_architecture,
       properties |-> [ requirements |-> Prop("array", {}),
                        domain       |-> Prop("string",
                          { SchemaLit.automotive, SchemaLit.aerospace, SchemaLit.defense,
                            SchemaLit.industrial }) ],
       required |-> {"requirements"} ],
     [ name |-> ServerLit.safety_check,
       properties |-> [ model_path      |-> Prop("string", {}),
                        standard        |-> Prop("string",
                          { SchemaLit.iso26262, SchemaLit.do178c, SchemaLit.iec61508 }),
                        generate_report |-> Prop("boolean", {}) ],
       required |-> {"model_path", "standard"} ],
     [ name |-> ServerLit.hazard_analysis,
       properties |-> [ model_path |-> Prop("string", {}),
                        standard   |-> Prop("string", { SchemaLit.iso26262, SchemaLit.iec61508 }) ],
       required |-> {"model_path"} ],
     [ name |-> ServerLit.git_merge,
       properties |-> [ base_path   |-> Prop("string", {}),
                        ours_path   |-> Prop("string", {}),
                        theirs_path |-> Prop("string", {}) ],
       required |-> {"base_path", "ours_path", "theirs_path"} ] >>

\* the names of the catalogue
Catalogue ==
  {list_tools[i].name : i \in 1..Len(list_tools)}

\* the Tool of a catalogue name
ToolOf(name) ==
  list_tools[CHOOSE i \in 1..Len(list_tools) : list_tools[i].name = name]

\* the JSON type of a value
JsonType(x) ==
  CASE x.t = "str"  -> "string"
    [] x.t = "bool" -> "boolean"
    [] x.t = "list" -> "array"
    [] OTHER        -> "null"

\* the required arguments of the tool that `arguments` omits
MissingRequired(name, arguments) ==
  ToolOf(name).required \ DOMAIN arguments

\* the declared arguments whose value has another type than declared
WrongType(name, arguments) ==
  {k \in DOMAIN arguments \cap DOMAIN ToolOf(name).properties :
     JsonType(arguments[k]) # ToolOf(name).properties[k].type}

\* the declared arguments whose value is outside the declared enumeration
OutsideEnum(name, arguments) ==
  {k \in DOMAIN arguments \cap DOMAIN ToolOf(name).properties :
     /\ ToolOf(name).properties[k].enum # {}
     /\ arguments[k].t = "str"
     /\ arguments[k].v \notin ToolOf(name).properties[k].enum}

\* `arguments` is an instance of the tool's inputSchema
SatisfiesSchema(name, arguments) ==
  /\ MissingRequired(name, arguments) = {}
  /\ WrongType(name, arguments) = {}
  /\ OutsideEnum(name, arguments) = {}

----------------------------------------------------------------------------
(* compiler/wrapper.py: ArcLangCompiler *)

\* what a function hands back: a value, or the message of the exception it raises
Returns(val) ==
  [raised |-> FALSE, msg |-> <<>>, val |-> val]

Raises(msg) ==
  [raised |-> TRUE, msg |-> msg, val |-> <<>>]

\* the timeout of a compiler section without a "timeout" key
DefaultTimeout ==
  30

\* ArcLangCompiler.__init__: environment first, then the config, then "arclang"
ArcLangCompiler_init(env_binary, compiler_config) ==
  [ binary_path |->
      IF Truthy(env_binary) THEN env_binary.v
      ELSE IF Truthy(Get(compiler_config, "path", NoneVal))
        THEN compiler_config["path"].v
      ELSE WrapperLit.arclang,
    timeout |-> Get(compiler_config, "timeout", IntVal(DefaultTimeout)) ]

\* the flag of a boolean argument: appended when the argument is truthy
Flag(x, flag) ==
  IF Truthy(x) THEN <<flag>> ELSE <<>>

\* compile: the argument vector
compile_cmd(self, model_path, validate, optimize) ==
  <<self.binary_path, WrapperLit.build, model_path>>
    \o Flag(validate, WrapperLit.validate) \o Flag(optimize, WrapperLit.optimize)

validate_cmd(self, model_path, strict) ==
  <<self.binary_path, WrapperLit.check, model_path, WrapperLit.lint>>
    \o Flag(strict, WrapperLit.strict)

trace_analysis_cmd(self, model_path, show_gaps, matrix) ==
  <<self.binary_path, WrapperLit.trace, model_path, WrapperLit.validate>>
    \o Flag(show_gaps, WrapperLit.gaps) \o Flag(matrix, WrapperLit.matrix)

\* a faulty default, for comparison: the model path itself
export_output_path_kept(model_path, output_path) ==
  IF ~Truthy(output_path) THEN model_path ELSE output_path.v

\* export_diagram: the output path, the model path with suffix .html when none is given
export_output_path(model_path, output_path) ==
  IF ~Truthy(output_path) THEN with_suffix(model_path, WrapperLit.dot_html)
  ELSE output_path.v

export_diagram_cmd(self, model_path, format_type, output_path) ==
  <<self.binary_path, WrapperLit.export, model_path,
    WrapperLit.o, export_output_path(model_path, output_path),
    WrapperLit.f, format_type.v>>

info_cmd(self, model_path, detailed) ==
  <<self.binary_path, WrapperLit.info, model_path, WrapperLit.metrics>>
    \o Flag(detailed, WrapperLit.detailed)

safety_check_cmd(self, model_path, standard, generate_report) ==
  <<self.binary_path, WrapperLit.safety, model_path, WrapperLit.standard, standard.v>>
    \o Flag(generate_report, WrapperLit.report)

hazard_analysis_cmd(self, model_path, standard) ==
  <<self.binary_path, WrapperLit.safety, model_path, WrapperLit.hara,
    WrapperLit.standard, standard.v>>

plm_sync_cmd(self, model_path, system, operation) ==
  <<self.binary_path, WrapperLit.plm, operation.v, model_path, WrapperLit.system, system.v>>

\* _run_command, the normal path: the exit status and the decoded streams;
\* bytes.decode raises on bytes that are not UTF-8, which the last handler catches
run_command_completed(process) ==
  IF process.decodable
    THEN [returncode |-> process.returncode, stdout |-> process.stdout,
          stderr |-> process.stderr]
    ELSE [returncode |-> -1, stdout |-> <<>>, stderr |-> WrapperLit.decode_error]

\* a faulty timeout path, for comparison: the status of a failed command and
\* nothing in stderr
run_command_gave_up(self) ==
  [returncode |-> 1, stdout |-> <<>>, stderr |-> <<>>]

\* _run_command, except asyncio.TimeoutError
run_command_timed_out(self) ==
  [returncode |-> -1, stdout |-> <<>>,
   stderr |-> WrapperLit.timed_out \o self.timeout.v \o WrapperLit.seconds]

\* a faulty last handler, for comparison: the error is swallowed
run_command_unreported(self, errno) ==
  [returncode |-> 0, stdout |-> <<>>, stderr |-> <<>>]

\* _run_command, except Exception: str(e) of the error create_subprocess_exec raised
run_command_failed(self, errno) ==
  [returncode |-> -1, stdout |-> <<>>,
   stderr |-> (IF errno = "ENOENT" THEN WrapperLit.enoent ELSE WrapperLit.eacces)
                \o Repr(self.binary_path)]

\* the last element of line.split(":"), stripped
AfterLastColon(line) ==
  LET parts == Split(line, ":") IN Strip(parts[Len(parts)])

\* the metric a line of _parse_metrics sets, "" for none
MetricOf(line) ==
  IF Contains(line, WrapperLit.Requirements) THEN "requirements"
  ELSE IF Contains(line, WrapperLit.Components) THEN "components"
  ELSE IF Contains(line, WrapperLit.Functions) THEN "functions"
  ELSE IF Contains(line, WrapperLit.Traces) THEN "traces"
  ELSE ""

RECURSIVE parse_metrics_lines(_, _)
parse_metrics_lines(lines, metrics) ==
  IF lines = <<>> THEN Returns(metrics)
  ELSE IF MetricOf(Head(lines)) = "" THEN parse_metrics_lines(Tail(lines), metrics)
  ELSE LET arg == AfterLastColon(Head(lines))
       IN  IF ~ParseInt(arg).ok THEN Raises(WrapperLit.bad_int \o Repr(arg))
           ELSE parse_metrics_lines(Tail(lines),
                                    Put(metrics, MetricOf(Head(lines)), ParseInt(arg).val))

\* _parse_metrics: a dict with a key for each label found; int() raises ValueError
parse_metrics(output) ==
  parse_metrics_lines(Split(output, "\n"), EmptyDict)

RECURSIVE SelectLines(_, _)
SelectLines(lines, marker) ==
  IF lines = <<>> THEN <<>>
  ELSE (IF Contains(Lower(Head(lines)), marker) THEN <<Head(lines)>> ELSE <<>>)
       \o SelectLines(Tail(lines), marker)

\* _parse_warnings: the lines that contain "warning:" in lower case
parse_warnings(output) ==
  SelectLines(Split(output, "\n"), WrapperLit.warning)

RECURSIVE parse_errors_lines(_)
parse_errors_lines(lines) ==
  IF lines = <<>> THEN <<>>
  ELSE (IF Contains(Lower(Head(lines)), WrapperLit.error) \/ Strip(Head(lines)) # <<>>
          THEN <<Head(lines)>> ELSE <<>>)
       \o parse_errors_lines(Tail(lines))

\* a faulty _parse_errors, for comparison: no line is kept
parse_no_errors(output) ==
  <<>>

\* _parse_errors: the lines that contain "error:" in lower case or are not blank
parse_errors(output) ==
  parse_errors_lines(Split(output, "\n"))

RECURSIVE parse_coverage_lines(_)
parse_coverage_lines(lines) ==
  IF lines = <<>> THEN 0
  ELSE IF /\ \/ Contains(Head(lines), WrapperLit.Coverage)
             \/ Contains(Head(lines), WrapperLit.coverage)
          /\ ParseInt(RStrip(AfterLastColon(Head(lines)), "%")).ok
    THEN ParseInt(RStrip(AfterLastColon(Head(lines)), "%")).val
  ELSE parse_coverage_lines(Tail(lines))

\* _parse_coverage: the first coverage line whose value is an int, else 0
parse_coverage(output) ==
  parse_coverage_lines(Split(output, "\n"))

RECURSIVE count_traces_lines(_)
count_traces_lines(lines) ==
  IF lines = <<>> THEN 0
  ELSE IF /\ \/ Contains(Head(lines), WrapperLit.Traces)
             \/ Contains(Head(lines), WrapperLit.traces)
          /\ ParseInt(AfterLastColon(Head(lines))).ok
    THEN ParseInt(AfterLastColon(Head(lines))).val
  ELSE count_traces_lines(Tail(lines))

\* _count_traces
count_traces(output) ==
  count_traces_lines(Split(output, "\n"))

\* _parse_gaps
parse_gaps(output) ==
  [untraced_requirements |-> <<>>, untraced_components |-> <<>>]

\* _parse_safety_issues
parse_safety_issues(output) ==
  <<>>

\* _parse_hazards
parse_hazards(output) ==
  <<>>

\* compile, after _run_command
compile_ret(result) ==
  LET metrics == IF result.returncode = 0 THEN parse_metrics(result.stdout)
                 ELSE Returns(EmptyDict)
  IN  IF metrics.raised THEN metrics
      ELSE Returns([ success |-> result.returncode = 0,
                     output  |-> result.stdout,
                     errors  |-> result.stderr,
                     metrics |-> metrics.val ])

validate_ret(result) ==
  Returns([ valid    |-> result.returncode = 0,
            warnings |-> parse_warnings(result.stdout),
            errors   |-> parse_errors(result.stderr) ])

trace_analysis_ret(result, show_gaps) ==
  Returns([ coverage     |-> parse_coverage(result.stdout),
            total_traces |-> count_traces(result.stdout),
            gaps         |-> IF Truthy(show_gaps) THEN parse_gaps(result.stdout)
                             ELSE EmptyDict ])

export_diagram_ret(result, output_path) ==
  Returns([ success     |-> result.returncode = 0,
            output_path |-> IF result.returncode = 0 THEN StrVal(output_path) ELSE NoneVal,
            error       |-> IF result.returncode # 0 THEN StrVal(result.stderr) ELSE NoneVal ])

\* st_size / 1024 of a file of whole kilobytes, 0 for a missing file (kb = -1)
size_kb_str(kb) ==
  IF kb < 0 THEN <<"0">> ELSE IntStr(kb) \o WrapperLit.dot_zero

info_ret(result, kb) ==
  LET metrics == parse_metrics(result.stdout)
  IN  IF metrics.raised THEN metrics
      ELSE Returns([metrics |-> metrics.val, size_kb |-> size_kb_str(kb)])

safety_check_ret(result) ==
  Returns([ compliant       |-> result.returncode = 0,
            issues          |-> parse_safety_issues(result.stdout),
            recommendations |-> <<>> ])

hazard_analysis_ret(result) ==
  Returns([hazards |-> parse_hazards(result.stdout)])

\* semantic_merge: a placeholder, no command is run
semantic_merge ==
  Returns([clean_merge |-> FALSE, conflicts |-> <<>>, merged_count |-> 0])

plm_sync_ret(result) ==
  Returns([ success       |-> result.returncode = 0,
            changes_count |-> 0,
            error         |-> IF result.returncode # 0 THEN StrVal(result.stderr) ELSE NoneVal ])

----------------------------------------------------------------------------
(* ai/generator.py: AIGenerator *)

\* AIGenerator.__init__: the client is set for the provider "anthropic" only,
\* to a client when there is an API key and to None when there is none; for
\* another provider the attribute is never assigned ("missing")
AIGenerator_init(ai_config, env_api_key) ==
  [ provider |-> Get(ai_config, "provider", StrVal(GeneratorLit.anthropic)).v,
    client |->
      IF Get(ai_config, "provider", StrVal(GeneratorLit.anthropic)).v = GeneratorLit.anthropic
        THEN IF Truthy(Get(ai_config, "api_key", NoneVal)) \/ Truthy(env_api_key)
               THEN "client" ELSE "none"
        ELSE "missing" ]

RECURSIVE Initials(_)
Initials(words) ==
  IF words = <<>> THEN <<>>
  ELSE <<UpperChar(Head(words)[1])>> \o Initials(Tail(words))

\* a faulty choice of words, for comparison: the first word alone
FirstOne(description) ==
  SubSeq(Words(description), 1, IF Len(Words(description)) < 1 THEN 0 ELSE 1)

\* the first two words of description.split()
FirstTwo(description) ==
  SubSeq(Words(description), 1, IF Len(Words(description)) < 2 THEN Len(Words(description)) ELSE 2)

\* _generate_requirement_id
generate_requirement_id(description) ==
  GeneratorLit.req_prefix \o Initials(FirstTwo(description)) \o GeneratorLit.id_suffix

\* _generate_component_id
generate_component_id(description) ==
  GeneratorLit.lc_prefix \o Initials(FirstTwo(description)) \o GeneratorLit.id_suffix

\* generate_requirement, the fallback template
requirement_fallback(description, safety_level, priority) ==
  GeneratorLit.req_open \o generate_requirement_id(description)
    \o GeneratorLit.req_desc \o description
    \o GeneratorLit.priority \o priority.v
    \o GeneratorLit.after_priority
    \o (IF Truthy(safety_level)
          THEN GeneratorLit.safety_open \o safety_level.v \o GeneratorLit.quote
          ELSE GeneratorLit.safety_tbd)
    \o GeneratorLit.req_tail

\* generate_component, the fallback template
component_fallback(description, component_type, safety_level) ==
  GeneratorLit.comp_open \o description
    \o GeneratorLit.comp_id \o generate_component_id(description)
    \o GeneratorLit.comp_type \o component_type.v
    \o GeneratorLit.comp_desc \o description
    \o GeneratorLit.after_priority
    \o (IF Truthy(safety_level)
          THEN GeneratorLit.safety_open \o safety_level.v \o GeneratorLit.quote
          ELSE <<>>)
    \o GeneratorLit.comp_tail

\* suggest_architecture, the fallback catalogue
architecture_fallback ==
  [ components |->
      << [name |-> GeneratorLit.sensor, type |-> SchemaLit.Logical,
          description |-> GeneratorLit.sensor_desc],
         [name |-> GeneratorLit.controller, type |-> SchemaLit.Logical,
          description |-> GeneratorLit.controller_desc],
         [name |-> GeneratorLit.actuator, type |-> SchemaLit.Logical,
          description |-> GeneratorLit.actuator_desc] >>,
    patterns |-> <<GeneratorLit.layered, GeneratorLit.spa>> ]

\* message.content[0].text.strip() of what client.messages.create hands back:
\* the call raises (reply "error"), the content list is empty (reply "empty"),
\* or there is a text
message_text(reply) ==
  CASE reply.kind = "error" -> Raises(GeneratorLit.connection_error)
    [] reply.kind = "empty" -> Raises(GeneratorLit.index_error)
    [] OTHER                -> Returns(Strip(reply.text))

\* generate_requirement and generate_component with a client: the text of the reply
generate_with_client(reply) ==
  message_text(reply)

\* json.loads on the replies of the model: an object, a list, or a ValueError
JsonLoads(text) ==
  IF text = <<"{","}">> THEN Returns([kind |-> "dict", val |-> EmptyDict])
  ELSE IF text = <<"[","]">> THEN Returns([kind |-> "list", val |-> EmptyDict])
  ELSE Raises(<<>>)

\* suggest_architecture with a client: an error of the call itself propagates;
\* whatever fails in reading and parsing the reply gives the empty suggestion
EmptySuggestion ==
  [kind |-> "dict", val |-> [components |-> <<>>, patterns |-> <<>>]]

suggest_with_client(reply) ==
  IF reply.kind = "error" THEN Raises(GeneratorLit.connection_error)
  ELSE IF reply.kind = "empty" THEN Returns(EmptySuggestion)
  ELSE IF JsonLoads(Strip(reply.text)).raised THEN Returns(EmptySuggestion)
  ELSE JsonLoads(Strip(reply.text))

----------------------------------------------------------------------------
(* tools/*.py: the handlers.  A handler runs to its first await that waits  *)
(* (a step: it raises, returns a text, starts a command or calls the       *)
(* backend) and, when the command or the backend is through, builds its    *)
(* report.                                                                 *)

\* op: the facade method the handler has called, "" for none
StepRaise(op, msg) ==
  [k |-> "raise", op |-> op, cmd |-> <<>>, text |-> msg]

StepText(op, text) ==
  [k |-> "text", op |-> op, cmd |-> <<>>, text |-> text]

StepRun(op, cmd) ==
  [k |-> "run", op |-> op, cmd |-> cmd, text |-> <<>>]

StepBackend(op) ==
  [k |-> "backend", op |-> op, cmd |-> <<>>, text |-> <<>>]

\* a faulty _resolve_path, for comparison: the path is left as it is given
resolve_path_unanchored(workspace_root, path_str) ==
  Path(path_str)

\* CoreTools._resolve_path, as the str of the Path
resolve_path(workspace_root, path_str) ==
  IF is_absolute(Path(path_str)) THEN Path(path_str)
  ELSE PathJoin(workspace_root, Path(path_str))

\* the first of `keys`, in the order the handler reads them, that args lacks
FirstMissing(args, keys) ==
  keys[CHOOSE i \in 1..Len(keys) :
         keys[i] \notin DOMAIN args /\ \A j \in 1..(i - 1) : keys[j] \in DOMAIN args]

\* a faulty ReadRequired, for comparison: it blames the last key it would read,
\* missing or not
ReadRequiredLast(args, keys) ==
  IF \E i \in 1..Len(keys) : keys[i] \notin DOMAIN args
    THEN Raises(KeyErrorStr(KeyLit[keys[Len(keys)]]))
    ELSE Returns(<<>>)

\* args[key] for each of `keys` in turn: the KeyError of the first one missing
ReadRequired(args, keys) ==
  IF \E i \in 1..Len(keys) : keys[i] \notin DOMAIN args
    THEN Raises(KeyErrorStr(KeyLit[FirstMissing(args, keys)]))
    ELSE Returns(<<>>)

\* CoreTools._compile up to the command
CoreTools_compile(server, args) ==
  IF ReadRequired(args, <<"model_path">>).raised
    THEN StepRaise("", ReadRequired(args, <<"model_path">>).msg)
    ELSE StepRun("compile",
           compile_cmd(server.compiler,
                       resolve_path(server.workspace_root, args["model_path"].v),
                       Get(args, "validate", BoolVal(TRUE)),
                       Get(args, "optimize", BoolVal(FALSE))))

CoreTools_validate(server, args) ==
  IF ReadRequired(args, <<"model_path">>).raised
    THEN StepRaise("", ReadRequired(args, <<"model_path">>).msg)
    ELSE StepRun("validate",
           validate_cmd(server.compiler,
                        resolve_path(server.workspace_root, args["model_path"].v),
                        Get(args, "strict", BoolVal(FALSE))))

CoreTools_trace_analysis(server, args) ==
  IF ReadRequired(args, <<"model_path">>).raised
    THEN StepRaise("", ReadRequired(args, <<"model_path">>).msg)
    ELSE StepRun("trace_analysis",
           trace_analysis_cmd(server.compiler,
                              resolve_path(server.workspace_root, args["model_path"].v),
                              Get(args, "show_gaps", BoolVal(TRUE)),
                              Get(args, "matrix", BoolVal(FALSE))))

CoreTools_export_diagram(server, args) ==
  IF ReadRequired(args, <<"model_path">>).raised
    THEN StepRaise("", ReadRequired(args, <<"model_path">>).msg)
    ELSE StepRun("export_diagram",
           export_diagram_cmd(server.compiler,
                              resolve_path(server.workspace_root, args["model_path"].v),
                              Get(args, "format", StrVal(ToolsLit.html)),
                              Get(args, "output_path", NoneVal)))

CoreTools_info(server, args) ==
  IF ReadRequired(args, <<"model_path">>).raised
    THEN StepRaise("", ReadRequired(args, <<"model_path">>).msg)
    ELSE StepRun("info",
           info_cmd(server.compiler,
                    resolve_path(server.workspace_root, args["model_path"].v),
                    Get(args, "detailed", BoolVal(FALSE))))

\* CoreTools.execute
CoreTools_execute(server, tool_name, arguments) ==
  IF tool_name = ServerLit.compile THEN CoreTools_compile(server, arguments)
  ELSE IF tool_name = ServerLit.validate THEN CoreTools_validate(server, arguments)
  ELSE IF tool_name = ServerLit.trace_analysis THEN CoreTools_trace_analysis(server, arguments)
  ELSE IF tool_name = ServerLit.export_diagram THEN CoreTools_export_diagram(server, arguments)
  ELSE IF tool_name = ServerLit.info THEN CoreTools_info(server, arguments)
  ELSE StepRaise("", ToolsLit.unknown_core \o tool_name)

\* SafetyTools._safety_check up to the command: the model path is not resolved
SafetyTools_safety_check(server, args) ==
  IF ReadRequired(args, <<"model_path", "standard">>).raised
    THEN StepRaise("", ReadRequired(args, <<"model_path", "standard">>).msg)
    ELSE StepRun("safety_check",
           safety_check_cmd(server.compiler, Path(args["model_path"].v), args["standard"],
                            Get(args, "generate_report", BoolVal(FALSE))))

SafetyTools_hazard_analysis(server, args) ==
  IF ReadRequired(args, <<"model_path">>).raised
    THEN StepRaise("", ReadRequired(args, <<"model_path">>).msg)
    ELSE StepRun("hazard_analysis",
           hazard_analysis_cmd(server.compiler, Path(args["model_path"].v),
                               Get(args, "standard", StrVal(ToolsLit.iso26262))))

\* SafetyTools.execute
SafetyTools_execute(server, tool_name, arguments) ==
  IF tool_name = ServerLit.safety_check THEN SafetyTools_safety_check(server, arguments)
  ELSE IF tool_name = ServerLit.hazard_analysis
    THEN SafetyTools_hazard_analysis(server, arguments)
  ELSE StepRaise("", ToolsLit.unknown_safety \o tool_name)

\* IntegrationTools._git_merge: semantic_merge runs no command, the report is
\* built at once (clean_merge is False and there are no conflicts)
IntegrationTools_git_merge(server, args) ==
  IF ReadRequired(args, <<"base_path", "ours_path", "theirs_path">>).raised
    THEN StepRaise("", ReadRequired(args, <<"base_path", "ours_path", "theirs_path">>).msg)
    ELSE StepText("semantic_merge",
           IntegrationLit.merge_head
             \o (IF semantic_merge.val.clean_merge
                   THEN IntegrationLit.clean \o IntegrationLit.merged
                          \o IntStr(semantic_merge.val.merged_count) \o CoreLit.nl
                   ELSE IntegrationLit.conflicts
                          \o IntStr(Len(semantic_merge.val.conflicts))
                          \o CoreLit.nl \o CoreLit.nl))

IntegrationTools_plm_sync(server, args) ==
  IF ReadRequired(args, <<"model_path", "system">>).raised
    THEN StepRaise("", ReadRequired(args, <<"model_path", "system">>).msg)
    ELSE StepRun("plm_sync",
           plm_sync_cmd(server.compiler, Path(args["model_path"].v), args["system"],
                        Get(args, "operation", StrVal(ToolsLit.pull))))

\* IntegrationTools.execute
IntegrationTools_execute(server, tool_name, arguments) ==
  IF tool_name = ServerLit.git_merge THEN IntegrationTools_git_merge(server, arguments)
  ELSE IF tool_name = ToolsLit.plm_sync THEN IntegrationTools_plm_sync(server, arguments)
  ELSE StepRaise("", ToolsLit.unknown_integration \o tool_name)

\* GenerationTools._generate_requirement: the report around the generated code
requirement_report(code) ==
  GenerationLit.req_head \o code \o GenerationLit.code_close \o GenerationLit.req_next

component_report(code) ==
  GenerationLit.comp_head \o code \o GenerationLit.code_close \o GenerationLit.comp_next

RECURSIVE ComponentItems(_, _)
ComponentItems(components, i) ==
  IF components = <<>> THEN <<>>
  ELSE IntStr(i) \o GenerationLit.name_open \o Head(components).name
         \o GenerationLit.type_open \o Head(components).type \o GenerationLit.type_close
         \o GenerationLit.purpose \o Head(components).description \o CoreLit.nl
         \o (IF "safety_level" \in DOMAIN Head(components)
               THEN GenerationLit.safety \o Head(components).safety_level \o CoreLit.nl
               ELSE <<>>)
         \o CoreLit.nl
         \o ComponentItems(Tail(components), i + 1)

RECURSIVE Items(_)
Items(lines) ==
  IF lines = <<>> THEN <<>>
  ELSE CoreLit.item \o Head(lines) \o CoreLit.nl \o Items(Tail(lines))

\* len(requirements) of a list or a str
LenStr(x) ==
  IF x.t = "list" THEN x.v ELSE IntStr(Len(x.v))

\* GenerationTools._suggest_architecture: the report of a suggestion dict
architecture_report(args, suggestions) ==
  GenerationLit.arch_head
    \o GenerationLit.domain
    \o Capitalize(Get(args, "domain", StrVal(ToolsLit.automotive)).v) \o CoreLit.nl
    \o GenerationLit.based_on \o LenStr(args["requirements"]) \o GenerationLit.n_requirements
    \o GenerationLit.suggested
    \o ComponentItems(Get(suggestions, "components", <<>>), 1)
    \o (IF Get(suggestions, "patterns", <<>>) # <<>>
          THEN GenerationLit.patterns \o Items(suggestions["patterns"])
          ELSE <<>>)
    \o GenerationLit.arch_next

\* a generation handler up to the backend: without a client the fallback
\* report at once; reading the client attribute that was never set raises
GenerationTools_generate_requirement(server, args) ==
  IF ReadRequired(args, <<"description">>).raised
    THEN StepRaise("", ReadRequired(args, <<"description">>).msg)
  ELSE IF server.generator.client = "missing" THEN StepRaise("generate_requirement", GeneratorLit.no_client)
  ELSE IF server.generator.client = "client" THEN StepBackend("generate_requirement")
  ELSE StepText("generate_requirement", requirement_report(
         requirement_fallback(args["description"].v, Get(args, "safety_level", NoneVal),
                              Get(args, "priority", StrVal(ToolsLit.High)))))

GenerationTools_generate_component(server, args) ==
  IF ReadRequired(args, <<"description">>).raised
    THEN StepRaise("", ReadRequired(args, <<"description">>).msg)
  ELSE IF server.generator.client = "missing" THEN StepRaise("generate_component", GeneratorLit.no_client)
  ELSE IF server.generator.client = "client" THEN StepBackend("generate_component")
  ELSE StepText("generate_component", component_report(
         component_fallback(args["description"].v,
                            Get(args, "component_type", StrVal(ToolsLit.Logical)),
                            Get(args, "safety_level", NoneVal))))

GenerationTools_suggest_architecture(server, args) ==
  IF ReadRequired(args, <<"requirements">>).raised
    THEN StepRaise("", ReadRequired(args, <<"requirements">>).msg)
  ELSE IF server.generator.client = "missing" THEN StepRaise("suggest_architecture", GeneratorLit.no_client)
  ELSE IF server.generator.client = "client" THEN StepBackend("suggest_architecture")
  ELSE StepText("suggest_architecture", architecture_report(args, architecture_fallback))

\* GenerationTools.execute
GenerationTools_execute(server, tool_name, arguments) ==
  IF tool_name = ServerLit.generate_requirement
    THEN GenerationTools_generate_requirement(server, arguments)
  ELSE IF tool_name = ServerLit.generate_component
    THEN GenerationTools_generate_component(server, arguments)
  ELSE IF tool_name = ServerLit.suggest_architecture
    THEN GenerationTools_suggest_architecture(server, arguments)
  ELSE StepRaise("", ToolsLit.unknown_generation \o tool_name)

\* a generation handler after the backend call
generation_after_backend(op, args, reply) ==
  CASE op = "generate_requirement" ->
         IF generate_with_client(reply).raised THEN generate_with_client(reply)
         ELSE Returns(requirement_report(generate_with_client(reply).val))
    [] op = "generate_component" ->
         IF generate_with_client(reply).raised THEN generate_with_client(reply)
         ELSE Returns(component_report(generate_with_client(reply).val))
    [] OTHER ->
         IF suggest_with_client(reply).raised THEN suggest_with_client(reply)
         ELSE IF suggest_with_client(reply).val.kind = "list"
           THEN Raises(GeneratorLit.list_no_get)
         ELSE Returns(architecture_report(args, suggest_with_client(reply).val.val))

\* the first n elements of a list: list[:n]
Take(list, n) ==
  SubSeq(list, 1, IF Len(list) < n THEN Len(list) ELSE n)

\* CoreTools._compile after compiler.compile: the result has no "validation"
\* and no "output_path" key
compile_report(model_path, outcome) ==
  IF outcome.success
    THEN CoreLit.compile_ok
           \o CoreLit.model \o PathName(model_path) \o CoreLit.nl
           \o CoreLit.requirements \o IntStr(Get(outcome.metrics, "requirements", 0)) \o CoreLit.nl
           \o CoreLit.components \o IntStr(Get(outcome.metrics, "components", 0)) \o CoreLit.nl
           \o CoreLit.functions \o IntStr(Get(outcome.metrics, "functions", 0)) \o CoreLit.nl
           \o CoreLit.traces \o IntStr(Get(outcome.metrics, "traces", 0)) \o CoreLit.nl
           \o CoreLit.output \o CoreLit.na
    ELSE CoreLit.compile_failed \o outcome.errors

validate_report(model_path, outcome) ==
  IF outcome.valid
    THEN CoreLit.validate_ok
           \o CoreLit.model \o PathName(model_path) \o CoreLit.nl
           \o CoreLit.syntax \o CoreLit.semantics
           \o (IF outcome.warnings # <<>>
                 THEN CoreLit.warnings_open \o IntStr(Len(outcome.warnings))
                        \o CoreLit.count_close \o Items(Take(outcome.warnings, 5))
                 ELSE <<>>)
    ELSE CoreLit.validate_failed
           \o CoreLit.model \o PathName(model_path) \o CoreLit.nl \o CoreLit.nl
           \o CoreLit.errors_open \o IntStr(Len(outcome.errors)) \o CoreLit.count_close
           \o Items(Take(outcome.errors, 10))

trace_analysis_report(model_path, show_gaps, outcome) ==
  CoreLit.trace_head
    \o CoreLit.model \o PathName(model_path) \o CoreLit.nl
    \o CoreLit.coverage \o IntStr(outcome.coverage) \o CoreLit.percent
    \o CoreLit.total_traces \o IntStr(outcome.total_traces) \o CoreLit.nl \o CoreLit.nl
    \o (IF Truthy(show_gaps) /\ DOMAIN outcome.gaps # {}
          THEN CoreLit.gaps_open \o IntStr(Cardinality(DOMAIN outcome.gaps))
                 \o CoreLit.gaps_close
          ELSE <<>>)
    \o (IF outcome.coverage >= 90 THEN CoreLit.good
        ELSE IF outcome.coverage >= 70 THEN CoreLit.moderate
        ELSE CoreLit.low)

export_diagram_report(model_path, format_type, outcome) ==
  IF outcome.success
    THEN CoreLit.export_ok
           \o CoreLit.model \o PathName(model_path) \o CoreLit.nl
           \o CoreLit.format \o format_type.v \o CoreLit.nl
           \o CoreLit.export_output \o outcome.output_path.v \o CoreLit.nl
    ELSE CoreLit.export_failed \o outcome.error.v

info_report(model_path, outcome) ==
  CoreLit.info_head
    \o CoreLit.path \o model_path \o CoreLit.nl
    \o CoreLit.size \o outcome.size_kb \o CoreLit.kb
    \o CoreLit.metrics
    \o CoreLit.m_requirements \o IntStr(Get(outcome.metrics, "requirements", 0)) \o CoreLit.nl
    \o CoreLit.m_components \o IntStr(Get(outcome.metrics, "components", 0)) \o CoreLit.nl
    \o CoreLit.m_functions \o IntStr(Get(outcome.metrics, "functions", 0)) \o CoreLit.nl
    \o CoreLit.m_traces \o IntStr(Get(outcome.metrics, "traces", 0)) \o CoreLit.nl
    \o CoreLit.m_actors \o IntStr(Get(outcome.metrics, "actors", 0)) \o CoreLit.nl
    \o CoreLit.m_nodes \o IntStr(Get(outcome.metrics, "nodes", 0)) \o CoreLit.nl \o CoreLit.nl

\* SafetyTools._safety_check after compiler.safety_check: no issues, no
\* recommendations and no report path are ever in the result
safety_check_report(model_path, standard, outcome) ==
  SafetyLit.check_head
    \o SafetyLit.standard \o Upper(standard.v) \o CoreLit.nl
    \o SafetyLit.model \o PathName(model_path) \o CoreLit.nl \o CoreLit.nl
    \o (IF outcome.compliant THEN SafetyLit.compliant ELSE SafetyLit.non_compliant)

hazard_analysis_report(model_path, standard, outcome) ==
  SafetyLit.hara_head
    \o SafetyLit.standard \o Upper(standard.v) \o CoreLit.nl
    \o SafetyLit.model \o PathName(model_path) \o CoreLit.nl \o CoreLit.nl
    \o SafetyLit.hazards \o IntStr(Len(outcome.hazards)) \o CoreLit.nl \o CoreLit.nl

plm_sync_report(model_path, system, operation, outcome) ==
  IntegrationLit.plm_head
    \o IntegrationLit.system \o Upper(system.v) \o CoreLit.nl
    \o IntegrationLit.operation \o operation.v \o CoreLit.nl
    \o IntegrationLit.model \o PathName(model_path) \o CoreLit.nl \o CoreLit.nl
    \o (IF outcome.success
          THEN IntegrationLit.sync_ok
                 \o (IF operation.v = ToolsLit.pull
                       THEN IntegrationLit.pulled \o IntStr(outcome.changes_count) \o CoreLit.nl
                     ELSE IF operation.v = ToolsLit.push
                       THEN IntegrationLit.pushed \o IntStr(outcome.changes_count) \o CoreLit.nl
                     ELSE <<>>)
          ELSE IntegrationLit.sync_failed \o outcome.error.v)

\* the facade method's return and the handler's report, once _run_command
\* has handed back `result`; kb is the size of the model file (info)
handler_after_run(server, op, args, result, kb) ==
  LET core_path == resolve_path(server.workspace_root, args["model_path"].v)
      raw_path  == Path(args["model_path"].v)
  IN  CASE op = "compile" ->
             IF compile_ret(result).raised THEN compile_ret(result)
             ELSE Returns(compile_report(core_path, compile_ret(result).val))
        [] op = "validate" ->
             Returns(validate_report(core_path, validate_ret(result).val))
        [] op = "trace_analysis" ->
             Returns(trace_analysis_report(core_path, Get(args, "show_gaps", BoolVal(TRUE)),
                       trace_analysis_ret(result, Get(args, "show_gaps", BoolVal(TRUE))).val))
        [] op = "export_diagram" ->
             Returns(export_diagram_report(core_path, Get(args, "format", StrVal(ToolsLit.html)),
                       export_diagram_ret(result,
                         export_output_path(core_path, Get(args, "output_path", NoneVal))).val))
        [] op = "info" ->
             IF info_ret(result, kb).raised THEN info_ret(result, kb)
             ELSE Returns(info_report(core_path, info_ret(result, kb).val))
        [] op = "safety_check" ->
             Returns(safety_check_report(raw_path, args["standard"], safety_check_ret(result).val))
        [] op = "hazard_analysis" ->
             Returns(hazard_analysis_report(raw_path,
                       Get(args, "standard", StrVal(ToolsLit.iso26262)),
                       hazard_analysis_ret(result).val))
        [] OTHER ->
             Returns(plm_sync_report(raw_path, args["system"],
                       Get(args, "operation", StrVal(ToolsLit.pull)), plm_sync_ret(result).val))

----------------------------------------------------------------------------
(* utils/config.py and server.py: the configuration and the server object *)

\* the ttl of the cache section
CacheTtl ==
  3600

\* load_config: the default configuration; the api key is read from the environment
default_config(workspace_root, env) ==
  [ workspace |-> [root |-> StrVal(workspace_root), build_dir |-> StrVal(ConfigLit.build_dir)],
    compiler  |-> [path |-> StrVal(ConfigLit.arclang), timeout |-> IntVal(DefaultTimeout)],
    ai        |-> [provider |-> StrVal(ConfigLit.anthropic), model |-> StrVal(ConfigLit.model),
                   temperature |-> FloatVal(ConfigLit.temperature),
                   api_key |-> env.ANTHROPIC_API_KEY],
    cache     |-> [enabled |-> BoolVal(TRUE), ttl |-> IntVal(CacheTtl)],
    plm       |-> [enabled |-> BoolVal(FALSE)],
    safety    |-> [default_standard |-> StrVal(ConfigLit.iso26262),
                   strict_validation |-> BoolVal(TRUE)] ]

\* isinstance(x, dict): a value is a record [t, v], a dict is any other function
IsDict(x) ==
  DOMAIN x # {"t", "v"}

\* _deep_merge: a new dict; a dict set over a dict is merged key by key
RECURSIVE deep_merge(_, _)
deep_merge(base, override) ==
  [ key \in DOMAIN base \cup DOMAIN override |->
      IF key \notin DOMAIN override THEN base[key]
      ELSE IF key \in DOMAIN base /\ IsDict(base[key]) /\ IsDict(override[key])
        THEN deep_merge(base[key], override[key])
      ELSE override[key] ]

\* load_config: defaults, then the file (user_config, the empty dict when there
\* is no file or it cannot be read), then the environment
load_config(workspace_root, user_config, env) ==
  LET merged == deep_merge(default_config(workspace_root, env), user_config)
      binary == IF env.ARCLANG_BINARY # NoneVal
                  THEN [merged EXCEPT !.compiler = Put(merged.compiler, "path", env.ARCLANG_BINARY)]
                  ELSE merged
  IN  IF env.ANTHROPIC_API_KEY # NoneVal
        THEN [binary EXCEPT !.ai = Put(binary.ai, "api_key", env.ANTHROPIC_API_KEY)]
        ELSE binary

\* ArcLangMCPServer.__init__
ArcLangMCPServer_init(workspace_root, user_config, env) ==
  LET config == load_config(workspace_root, user_config, env)
  IN  [ workspace_root |-> workspace_root,
        config    |-> config,
        compiler  |-> ArcLangCompiler_init(env.ARCLANG_BINARY, Get(config, "compiler", EmptyDict)),
        generator |-> AIGenerator_init(Get(config, "ai", EmptyDict), env.ANTHROPIC_API_KEY) ]

\* call_tool up to the first await that waits: the route by name, then the handler
call_tool_step(server, name, arguments) ==
  IF \/ StartsWith(name, ServerLit.p_compile)
     \/ name \in {ServerLit.validate, ServerLit.trace_analysis,
                  ServerLit.export_diagram, ServerLit.info}
    THEN CoreTools_execute(server, name, arguments)
  ELSE IF StartsWith(name, ServerLit.p_generate) \/ name = ServerLit.suggest_architecture
    THEN GenerationTools_execute(server, name, arguments)
  ELSE IF StartsWith(name, ServerLit.p_safety) \/ name = ServerLit.hazard_analysis
    THEN SafetyTools_execute(server, name, arguments)
  ELSE IF StartsWith(name, ServerLit.p_git) \/ StartsWith(name, ServerLit.p_plm)
    THEN IntegrationTools_execute(server, name, arguments)
  ELSE StepRaise("", ServerLit.unknown_tool \o name)

\* call_tool, the return: the text of the handler
TextPayload(text) ==
  <<[type |-> "text", text |-> text]>>

\* call_tool, except Exception: "Error: " and str(e)
ErrorPayload(msg) ==
  <<[type |-> "text", text |-> ServerLit.error_prefix \o msg]>>

\* a faulty call_tool, for comparison: without the except clause the exception
\* of the handler leaves call_tool
call_tool_reraise(r) ==
  IF r.raised THEN [escaped |-> TRUE, content |-> <<>>]
  ELSE [escaped |-> FALSE, content |-> TextPayload(r.val)]

\* how call_tool ends for what the handler returned or raised: the content
\* list it returns; escaped says that the exception left call_tool
call_tool_return(r) ==
  IF r.raised THEN [escaped |-> FALSE, content |-> ErrorPayload(r.msg)]
  ELSE [escaped |-> FALSE, content |-> TextPayload(r.val)]

----------------------------------------------------------------------------
(* the inputs: the installation, the calls of the client, the behaviour of  *)
(* the binary, of the file system and of the backend                       *)

\* the environment variables: unset (None) or set
Environments ==
  [ARCLANG_BINARY : {NoneVal}, ANTHROPIC_API_KEY : {NoneVal, StrVal(In.api_key)}]

\* the contents of .arclang-mcp.toml: none, or another provider
UserConfigs ==
  {EmptyDict, [ai |-> [provider |-> StrVal(In.openai)]]}

\* the dicts that give `key` one of `vals`, or leave it out
Opt(key, vals) ==
  {EmptyDict} \cup {[k \in {key} |-> v] : v \in vals}

\* the dicts made of one dict of each set
Both(ds, es) ==
  {d @@ e : d \in ds, e \in es}

PathValues ==
  {StrVal(In.rel_path), StrVal(In.abs_path)}

\* a boolean argument: both booleans and a string, which is not a boolean
BoolValues ==
  {BoolVal(TRUE), BoolVal(FALSE), StrVal(In.yes)}

\* the argument dicts of the calls, by tool
ArgumentsOf(name) ==
  CASE name = ServerLit.compile ->
         Both(Opt("model_path", PathValues),
              Both(Opt("validate", BoolValues), Opt("optimize", {BoolVal(TRUE)})))
    [] name = ServerLit.validate ->
         Both(Opt("model_path", PathValues), Opt("strict", BoolValues))
    [] name = ServerLit.trace_analysis ->
         Both(Opt("model_path", PathValues),
              Both(Opt("show_gaps", {BoolVal(FALSE)}), Opt("matrix", {BoolVal(TRUE)})))
    [] name = ServerLit.export_diagram ->
         Both(Opt("model_path", PathValues),
              Both(Opt("format", {StrVal(SchemaLit.json), StrVal(SchemaLit.html),
                                  StrVal(SchemaLit.capella), StrVal(SchemaLit.pdf),
                                  StrVal(In.bogus)}),
                   Opt("output_path", {StrVal(<<>>), StrVal(In.out_path)})))
    [] name = ServerLit.info ->
         Both(Opt("model_path", PathValues), Opt("detailed", {BoolVal(TRUE)}))
    [] name = ServerLit.generate_requirement ->
         Both(Opt("description", {StrVal(<<>>), StrVal(In.blank), StrVal(In.brake),
                                  StrVal(In.req_like)}),
              Both(Opt("safety_level", {StrVal(SchemaLit.ASIL_B), StrVal(In.bogus)}),
                   Opt("priority", {StrVal(SchemaLit.Low), StrVal(In.urgent)})))
    [] name = ServerLit.generate_component ->
         Both(Opt("description", {StrVal(<<>>), StrVal(In.blank), StrVal(In.brake)}),
              Both(Opt("component_type", {StrVal(SchemaLit.Physical), StrVal(In.bogus)}),
                   Opt("safety_level", {StrVal(SchemaLit.ASIL_B)})))
    [] name = ServerLit.suggest_architecture ->
         Both(Opt("requirements", {ListVal(0), ListVal(2)}),
              Opt("domain", {StrVal(SchemaLit.aerospace), StrVal(In.marine)}))
    [] name = ServerLit.safety_check ->
         Both(Opt("model_path", PathValues),
              Both(Opt("standard", {StrVal(SchemaLit.iso26262), StrVal(In.bogus)}),
                   Opt("generate_report", BoolValues)))
    [] name = ServerLit.hazard_analysis ->
         Both(Opt("model_path", PathValues),
              Opt("standard", {StrVal(SchemaLit.iec61508), StrVal(SchemaLit.do178c)}))
    [] name = ServerLit.git_merge ->
         Both(Opt("base_path", {StrVal(In.rel_path)}),
              Both(Opt("ours_path", {StrVal(In.rel_path)}),
                   Opt("theirs_path", {StrVal(In.abs_path)})))
    [] OTHER ->
         Both(Opt("model_path", {StrVal(In.rel_path)}),
              Both(Opt("system", {StrVal(In.doors)}), Opt("operation", {StrVal(ToolsLit.push)})))

\* names outside the catalogue: with the prefix of a route, and without
OtherNames ==
  {In.compile_x, In.generate_x, In.safety_x, In.git_x, In.plm_x, ToolsLit.plm_sync, In.other}

\* the calls a client sends
Requests ==
  {[name |-> n, arguments |-> a] : n \in Catalogue \cup OtherNames, a \in {EmptyDict}}
    \cup UNION {{[name |-> n, arguments |-> a] : a \in ArgumentsOf(n)} :
                n \in Catalogue \cup OtherNames}

\* what the binary writes and how it exits
Stdouts ==
  {<<>>, In.metrics, In.coverage, In.bad_metric, In.warn, In.over_coverage,
   In.neg_coverage, In.warn_mixed}

Stderrs ==
  {<<>>, In.err, In.note_err}

ExitCodes ==
  {0, 1}

\* how a run of the binary ends: the exit status and the two streams, or
\* streams that are not UTF-8
Exits ==
  [returncode : ExitCodes, stdout : Stdouts, stderr : Stderrs, decodable : {TRUE}]
    \cup {[returncode |-> 0, stdout |-> <<>>, stderr |-> <<>>, decodable |-> FALSE]}

\* the errors of create_subprocess_exec: the binary is missing, or not executable
LaunchErrors ==
  {"ENOENT", "EACCES"}

\* the size of the model file in KB, -1 when there is no file
FileSizes ==
  {-1, 2}

\* what client.messages.create does: it raises, it hands back no content, or
\* a text: a requirement block, JSON, or the very block of the template, which
\* is the format the prompt asks the backend for
Replies ==
  {[kind |-> "error", text |-> <<>>], [kind |-> "empty", text |-> <<>>]}
    \cup {[kind |-> "text", text |-> t] :
            t \in {In.reply_req, In.reply_obj, In.reply_list,
                   requirement_fallback(In.brake, NoneVal, StrVal(ToolsLit.High))}}

----------------------------------------------------------------------------
(* the server at work *)

VARIABLES
  server,   \* the ArcLangMCPServer object: configuration and facades
  pc,       \* of each call: idle, queued, waiting (for the command), backend
            \* (in the backend call), done, cancelled, failed (an exception
            \* left call_tool)
  req,      \* of each call: the tool name and the arguments
  inv,      \* of each call: the facade method called and the command built
  proc,     \* of each call: the process it spawned
  ran,      \* of each call: how _run_command ended and the result it returned
  exc,      \* of each call: what the handler raised, if it did
  resp,     \* of each call: the content list call_tool returned
  runs,     \* of each call: the number of times _run_command was entered
  loop      \* the call that holds the event loop in a blocking call, 0 for none

vars ==
  <<server, pc, req, inv, proc, ran, exc, resp, runs, loop>>

\* the calls of a client that sends one call at a time
OneCall ==
  {1}

\* the number of calls a concurrent client has in flight
MaxCalls ==
  2

NoRequest ==
  [name |-> <<>>, arguments |-> EmptyDict]

NoInvocation ==
  [op |-> "", cmd |-> <<>>]

NoProcess ==
  [st |-> "none", returncode |-> 0, stdout |-> <<>>, stderr |-> <<>>, decodable |-> TRUE]

NoRun ==
  [how |-> "", result |-> [returncode |-> 0, stdout |-> <<>>, stderr |-> <<>>]]

NoException ==
  [raised |-> FALSE, msg |-> <<>>]

\* the server after construction, no call received
InitOf(ids) ==
  /\ server \in {ArcLangMCPServer_init(In.workspace, u, e) :
                   u \in UserConfigs, e \in Environments}
  /\ pc = [c \in ids |-> "idle"]
  /\ req = [c \in ids |-> NoRequest]
  /\ inv = [c \in ids |-> NoInvocation]
  /\ proc = [c \in ids |-> NoProcess]
  /\ ran = [c \in ids |-> NoRun]
  /\ exc = [c \in ids |-> NoException]
  /\ resp = [c \in ids |-> <<>>]
  /\ runs = [c \in ids |-> 0]
  /\ loop = 0

\* the step call_tool takes for the call
StepOf(c) ==
  call_tool_step(server, req[c].name, req[c].arguments)

\* a faulty _run_command, for comparison: the process is kept in one place
\* that all calls share
SharedProcess(processes, c) ==
  processes[1]

\* the process object a call waits on: the local variable of its own _run_command
OwnProcess(processes, c) ==
  processes[c]

\* call_tool ends: the handler returned or raised r
Respond(c, r) ==
  /\ exc' = [exc EXCEPT ![c] = [raised |-> r.raised, msg |-> r.msg]]
  /\ resp' = [resp EXCEPT ![c] = call_tool_return(r).content]
  /\ pc' = [pc EXCEPT ![c] = IF call_tool_return(r).escaped THEN "failed" ELSE "done"]

\* the client sends a call
Receive(c, r) ==
  /\ pc[c] = "idle"
  /\ pc' = [pc EXCEPT ![c] = "queued"]
  /\ req' = [req EXCEPT ![c] = r]
  /\ UNCHANGED <<server, inv, proc, ran, exc, resp, runs, loop>>

\* a call that is over, and whose process is gone, leaves: its slot is free
\* for the next call
Retire(c) ==
  /\ pc[c] \in {"done", "cancelled", "failed"}
  /\ proc[c].st # "running"
  /\ pc' = [pc EXCEPT ![c] = "idle"]
  /\ req' = [req EXCEPT ![c] = NoRequest]
  /\ inv' = [inv EXCEPT ![c] = NoInvocation]
  /\ proc' = [proc EXCEPT ![c] = NoProcess]
  /\ ran' = [ran EXCEPT ![c] = NoRun]
  /\ exc' = [exc EXCEPT ![c] = NoException]
  /\ resp' = [resp EXCEPT ![c] = <<>>]
  /\ runs' = [runs EXCEPT ![c] = 0]
  /\ UNCHANGED <<server, loop>>

\* call_tool runs and ends without waiting: the handler raises (unknown tool,
\* missing argument, missing client) or returns its report (git merge, fallback)
Dispatch(c) ==
  /\ pc[c] = "queued" /\ loop = 0
  /\ StepOf(c).k \in {"raise", "text"}
  /\ inv' = [inv EXCEPT ![c] = [op |-> StepOf(c).op, cmd |-> <<>>]]
  /\ Respond(c, IF StepOf(c).k = "raise" THEN Raises(StepOf(c).text)
                ELSE Returns(StepOf(c).text))
  /\ UNCHANGED <<server, req, proc, ran, runs, loop>>

\* call_tool runs up to _run_command, which spawns the process and waits for it
Spawn(c) ==
  /\ pc[c] = "queued" /\ loop = 0
  /\ StepOf(c).k = "run"
  /\ inv' = [inv EXCEPT ![c] = [op |-> StepOf(c).op, cmd |-> StepOf(c).cmd]]
  /\ runs' = [runs EXCEPT ![c] = @ + 1]
  /\ proc' = [proc EXCEPT ![c] = [NoProcess EXCEPT !.st = "running"]]
  /\ pc' = [pc EXCEPT ![c] = "waiting"]
  /\ UNCHANGED <<server, req, ran, exc, resp, loop>>

\* a faulty _run_command, for comparison: create_subprocess_exec raised, and
\* the command is tried again
SpawnFailsAndRetries(c, errno, kb) ==
  /\ pc[c] = "queued" /\ loop = 0
  /\ StepOf(c).k = "run"
  /\ inv' = [inv EXCEPT ![c] = [op |-> StepOf(c).op, cmd |-> StepOf(c).cmd]]
  /\ runs' = [runs EXCEPT ![c] = @ + 1]
  /\ UNCHANGED <<server, pc, req, proc, ran, exc, resp, loop>>

\* create_subprocess_exec raises: _run_command returns at once, the handler goes on
SpawnFails(c, errno, kb) ==
  /\ pc[c] = "queued" /\ loop = 0
  /\ StepOf(c).k = "run"
  /\ inv' = [inv EXCEPT ![c] = [op |-> StepOf(c).op, cmd |-> StepOf(c).cmd]]
  /\ runs' = [runs EXCEPT ![c] = @ + 1]
  /\ ran' = [ran EXCEPT ![c] = [how |-> "launch",
                                result |-> run_command_failed(server.compiler, errno)]]
  /\ Respond(c, handler_after_run(server, StepOf(c).op, req[c].arguments,
                                  run_command_failed(server.compiler, errno), kb))
  /\ UNCHANGED <<server, req, proc, loop>>

\* a generation handler with a client calls client.messages.create, a blocking call
CallBackend(c) ==
  /\ pc[c] = "queued" /\ loop = 0
  /\ StepOf(c).k = "backend"
  /\ inv' = [inv EXCEPT ![c] = [op |-> StepOf(c).op, cmd |-> <<>>]]
  /\ pc' = [pc EXCEPT ![c] = "backend"]
  /\ loop' = c
  /\ UNCHANGED <<server, req, proc, ran, exc, resp, runs>>

\* the binary exits, whether or not its call still waits for it
ProcessExits(c, x) ==
  /\ proc[c].st = "running"
  /\ proc' = [proc EXCEPT ![c] = [st |-> "exited", returncode |-> x.returncode,
                                  stdout |-> x.stdout, stderr |-> x.stderr,
                                  decodable |-> x.decodable]]
  /\ UNCHANGED <<server, pc, req, inv, ran, exc, resp, runs, loop>>

\* the wait of a call for communicate() is over: the loop is free to resume
\* the call, and the process the call waits on has exited
CanComplete(c) ==
  /\ pc[c] = "waiting" /\ loop = 0
  /\ OwnProcess(proc, c).st = "exited"

\* communicate() is through: _run_command returns, the handler builds its report
CommandCompletes(c, kb) ==
  /\ CanComplete(c)
  /\ ran' = [ran EXCEPT ![c] = [how |-> "completed",
                                result |-> run_command_completed(OwnProcess(proc, c))]]
  /\ Respond(c, handler_after_run(server, inv[c].op, req[c].arguments,
                                  run_command_completed(OwnProcess(proc, c)), kb))
  /\ UNCHANGED <<server, req, inv, proc, runs, loop>>

\* a faulty _run_command, for comparison: after a timeout the facade allows
\* the next commands twice the time
CommandTimesOutBackingOff(c, kb) ==
  /\ pc[c] = "waiting" /\ loop = 0
  /\ ran' = [ran EXCEPT ![c] = [how |-> "timeout",
                                result |-> run_command_timed_out(server.compiler)]]
  /\ Respond(c, handler_after_run(server, inv[c].op, req[c].arguments,
                                  run_command_timed_out(server.compiler), kb))
  /\ server' = [server EXCEPT !.compiler.timeout = IntVal(2 * DefaultTimeout)]
  /\ UNCHANGED <<req, inv, proc, runs, loop>>

\* wait_for gives up: _run_command returns the timeout result; nothing is
\* done to the process
CommandTimesOut(c, kb) ==
  /\ pc[c] = "waiting" /\ loop = 0
  /\ ran' = [ran EXCEPT ![c] = [how |-> "timeout",
                                result |-> run_command_timed_out(server.compiler)]]
  /\ Respond(c, handler_after_run(server, inv[c].op, req[c].arguments,
                                  run_command_timed_out(server.compiler), kb))
  /\ UNCHANGED <<server, req, inv, proc, runs, loop>>

\* the call is cancelled while it waits: CancelledError is no Exception, it
\* leaves _run_command and call_tool; nothing is done to the process
CallCancelled(c) ==
  /\ pc[c] = "waiting" /\ loop = 0
  /\ pc' = [pc EXCEPT ![c] = "cancelled"]
  /\ UNCHANGED <<server, req, inv, proc, ran, exc, resp, runs, loop>>

\* client.messages.create returns or raises: the handler goes on to its end
BackendReplies(c, reply) ==
  /\ pc[c] = "backend" /\ loop = c
  /\ Respond(c, generation_after_backend(inv[c].op, req[c].arguments, reply))
  /\ loop' = 0
  /\ UNCHANGED <<server, req, inv, proc, ran, runs>>

\* one call at a time, every call of Requests
Init ==
  InitOf(OneCall)

Next ==
  \E c \in OneCall :
    \/ \E r \in Requests : Receive(c, r)
    \/ Retire(c)
    \/ Dispatch(c)
    \/ Spawn(c)
    \/ \E errno \in LaunchErrors, kb \in FileSizes : SpawnFails(c, errno, kb)
    \/ CallBackend(c)
    \/ \E x \in Exits : ProcessExits(c, x)
    \/ \E kb \in FileSizes : CommandCompletes(c, kb)
    \/ \E kb \in FileSizes : CommandTimesOut(c, kb)
    \/ CallCancelled(c)
    \/ \E reply \in Replies : BackendReplies(c, reply)

Spec ==
  Init /\ [][Next]_vars

----------------------------------------------------------------------------
(* several calls in flight: the server awaits each call as a task of its own *)

\* the model file of a call: each call has its own
ModelPathOf(c) ==
  <<"m">> \o IntStr(c) \o <<".", "a", "r", "c">>

\* the calls of a concurrent client: a validation of the call's own model,
\* and a generation
ConcRequests(c) ==
  {[name |-> ServerLit.validate, arguments |-> [model_path |-> StrVal(ModelPathOf(c))]],
   [name |-> ServerLit.generate_requirement,
    arguments |-> [description |-> StrVal(In.brake)]]}

\* the binary validates the model, or reports an error
ConcExits ==
  {[returncode |-> 0, stdout |-> In.warn, stderr |-> <<>>, decodable |-> TRUE],
   [returncode |-> 1, stdout |-> <<>>, stderr |-> In.err, decodable |-> TRUE]}

ConcReplies ==
  {[kind |-> "error", text |-> <<>>], [kind |-> "text", text |-> In.reply_req]}

InitConc ==
  InitOf(1..MaxCalls)

NextConc ==
  \E c \in 1..MaxCalls :
    \/ \E r \in ConcRequests(c) : Receive(c, r)
    \/ Retire(c)
    \/ Dispatch(c)
    \/ Spawn(c)
    \/ \E errno \in LaunchErrors : SpawnFails(c, errno, -1)
    \/ CallBackend(c)
    \/ \E x \in ConcExits : ProcessExits(c, x)
    \/ CommandCompletes(c, -1)
    \/ CommandTimesOut(c, -1)
    \/ CallCancelled(c)
    \/ \E reply \in ConcReplies : BackendReplies(c, reply)

SpecConc ==
  InitConc /\ [][NextConc]_vars

----------------------------------------------------------------------------
(* the installations: what the environment and .arclang-mcp.toml may hold *)

\* the environment: ARCLANG_BINARY unset, set to nothing, or set to a path
ConfigEnvironments ==
  [ARCLANG_BINARY : {NoneVal, StrVal(<<>>), StrVal(In.env_binary)},
   ANTHROPIC_API_KEY : {NoneVal, StrVal(In.api_key)}]

\* the file: none, or one that sets the path of the binary (perhaps to
\* nothing), the timeout, or the API key
ConfigFiles ==
  { EmptyDict,
    [compiler |-> [path |-> StrVal(In.file_binary)]],
    [compiler |-> [path |-> StrVal(<<>>)]],
    [compiler |-> [timeout |-> IntVal(2 * DefaultTimeout)]],
    [ai |-> [api_key |-> StrVal(In.file_key)]] }

InitConfig ==
  /\ server \in {ArcLangMCPServer_init(In.workspace, u, e) :
                   u \in ConfigFiles, e \in ConfigEnvironments}
  /\ pc = [c \in OneCall |-> "idle"]
  /\ req = [c \in OneCall |-> NoRequest]
  /\ inv = [c \in OneCall |-> NoInvocation]
  /\ proc = [c \in OneCall |-> NoProcess]
  /\ ran = [c \in OneCall |-> NoRun]
  /\ exc = [c \in OneCall |-> NoException]
  /\ resp = [c \in OneCall |-> <<>>]
  /\ runs = [c \in OneCall |-> 0]
  /\ loop = 0

NextConfig ==
  \E c \in OneCall :
    \/ \E r \in ConcRequests(c) : Receive(c, r)
    \/ Retire(c)
    \/ Dispatch(c)
    \/ Spawn(c)
    \/ \E errno \in LaunchErrors : SpawnFails(c, errno, -1)
    \/ CallBackend(c)
    \/ \E x \in ConcExits : ProcessExits(c, x)
    \/ CommandCompletes(c, -1)
    \/ CommandTimesOut(c, -1)
    \/ CallCancelled(c)
    \/ \E reply \in ConcReplies : BackendReplies(c, reply)

SpecConfig ==
  InitConfig /\ [][NextConfig]_vars
----------------------------------------------------------------------------
(* the dispatch of a call: arguments, names, errors *)

\* the calls of the run
Calls ==
  DOMAIN pc

\* the call names a tool of the catalogue and omits a required argument of it
OmitsRequired(c) ==
  /\ req[c].name \in Catalogue
  /\ MissingRequired(req[c].name, req[c].arguments) # {}

\* C1: a call of a catalogue tool that omits a required argument never enters
\* _run_command, and the payload call_tool returns for it is the error that
\* names a missing field: "Error: " and the repr of the field.
MissingArgumentRejected ==
  \A c \in Calls :
    OmitsRequired(c) =>
      /\ runs[c] = 0
      /\ proc[c].st = "none"
      /\ pc[c] = "done" =>
           \E f \in MissingRequired(req[c].name, req[c].arguments) :
             resp[c] = <<[type |-> "text",
                          text |-> ServerLit.error_prefix \o Repr(KeyLit[f])]>>

\* a merge call without its base_path, the two other paths given, is answered
MissingArgumentAnswered ==
  \E c \in Calls :
    /\ pc[c] = "done"
    /\ req[c].name = ServerLit.git_merge
    /\ MissingRequired(req[c].name, req[c].arguments) = {"base_path"}
    /\ exc[c].raised

\* C2: a call of a catalogue tool whose arguments are no instance of the
\* tool's schema (a required argument left out, a value of another type, a
\* value outside the enumeration) reaches no facade operation, no process and
\* no backend call.
SchemaViolationRejected ==
  \A c \in Calls :
    (req[c].name \in Catalogue /\ ~SatisfiesSchema(req[c].name, req[c].arguments)) =>
      /\ inv[c].op = ""
      /\ runs[c] = 0
      /\ pc[c] # "backend"

\* the text of the unknown-tool errors: "Error: Unknown"
UnknownPrefix ==
  ServerLit.error_prefix \o <<"U", "n", "k", "n", "o", "w", "n">>

\* C3: a call whose name is not in the catalogue of list_tools reaches no
\* facade operation and no process, and is answered with an unknown-tool error.
UnknownToolRejected ==
  \A c \in Calls :
    (pc[c] # "idle" /\ req[c].name \notin Catalogue) =>
      /\ inv[c].op = ""
      /\ runs[c] = 0
      /\ pc[c] = "done" =>
           /\ Len(resp[c]) = 1
           /\ StartsWith(resp[c][1].text, UnknownPrefix)

\* C4: call_tool ends every call it is not cancelled in with a list of exactly
\* one text payload; when the handler or the facade raised, the text is
\* "Error: " and the message, no exception leaves call_tool, and the event
\* loop is free for the next call.
OnePayloadNeverRaises ==
  \A c \in Calls :
    /\ pc[c] # "failed"
    /\ pc[c] = "done" =>
         /\ Len(resp[c]) = 1
         /\ resp[c][1].type = "text"
         /\ loop # c
         /\ exc[c].raised => resp[c][1].text = ServerLit.error_prefix \o exc[c].msg

\* a facade raised after its command completed, and the call is answered
FacadeErrorAnswered ==
  \E c \in Calls :
    /\ pc[c] = "done"
    /\ exc[c].raised
    /\ ran[c].how = "completed"
    /\ Len(resp[c]) = 1

----------------------------------------------------------------------------
(* the process of a call *)

\* C5: once _run_command has returned, on the normal path or on the timeout
\* path, the process it spawned runs no more.
NoProcessAfterReturn ==
  \A c \in Calls :
    ran[c].how # "" => proc[c].st # "running"

\* C6: when the wait for the process times out, _run_command returns (it
\* raises nothing: the handler goes on and the call is answered) the status -1,
\* an empty stdout and a stderr that says "Command timed out after".
TimeoutResult ==
  \A c \in Calls :
    ran[c].how = "timeout" =>
      /\ ran[c].result.returncode = -1
      /\ ran[c].result.stdout = <<>>
      /\ Contains(ran[c].result.stderr, WrapperLit.timed_out)
      /\ pc[c] = "done"
      /\ Len(resp[c]) = 1

\* a call whose command timed out
TimedOut ==
  \E c \in Calls :
    ran[c].how = "timeout" /\ proc[c].st = "running"

\* _run_command of the call ended in its last handler: the process could
\* not be created, or its output could not be decoded
RunFailed(c) ==
  \/ ran[c].how = "launch"
  \/ ran[c].how = "completed" /\ ~proc[c].decodable

\* C7: when the process cannot be created or its output cannot be decoded,
\* _run_command returns the status -1 with the text of the error in stderr;
\* and every call that entered _run_command and was not cancelled in it got a
\* result from it.
FailureResult ==
  \A c \in Calls :
    /\ RunFailed(c) =>
         /\ ran[c].result.returncode = -1
         /\ ran[c].result.stderr # <<>>
         /\ pc[c] = "done"
    /\ (runs[c] > 0 /\ pc[c] \notin {"waiting", "cancelled"}) => ran[c].how # ""

\* both failures happen: a binary that is missing, an output that is not UTF-8
LaunchFailed ==
  /\ \E c \in Calls : ran[c].how = "launch" /\ pc[c] = "done"
  /\ server.compiler.binary_path # <<>>

\* C8: no call is cancelled with its process still running.
CancelTerminates ==
  \A c \in Calls :
    pc[c] = "cancelled" => proc[c].st # "running"

----------------------------------------------------------------------------
(* calls in flight together *)

\* another call than c has timed out
OtherTimedOut(c) ==
  \E d \in Calls \ {c} : ran[d].how = "timeout"

\* C9: with a call that timed out beside it, a call that waits for its own
\* process is not held up (as soon as its process has exited and the loop is
\* free it can complete), and the result and the answer it completes with are
\* those of its own process.
TimeoutLeavesOthersAlone ==
  \A c \in Calls :
    OtherTimedOut(c) =>
      /\ (pc[c] = "waiting" /\ proc[c].st = "exited" /\ loop = 0) => CanComplete(c)
      /\ (pc[c] = "done" /\ ran[c].how = "completed") =>
           /\ ran[c].result = run_command_completed(proc[c])
           /\ resp[c] = call_tool_return(
                          handler_after_run(server, inv[c].op, req[c].arguments,
                                            run_command_completed(proc[c]), -1)).content

\* one call timed out and the other completed with what its process wrote
CompletedBesideTimeout ==
  \E c \in Calls :
    /\ OtherTimedOut(c)
    /\ pc[c] = "done"
    /\ ran[c].how = "completed"
    /\ proc[c].returncode = 1

\* the call starts: call_tool runs up to its first wait, or to its end
Starts(d) ==
  \/ Dispatch(d)
  \/ Spawn(d)
  \/ CallBackend(d)
  \/ \E errno \in LaunchErrors : SpawnFails(d, errno, -1)

\* C10: while a call waits for the reply of the backend, a queued call can
\* start.
BackendCallYields ==
  \A c, d \in Calls :
    (pc[c] = "backend" /\ pc[d] = "queued") => ENABLED Starts(d)

----------------------------------------------------------------------------
(* the generation facade *)

GenerationOps ==
  {"generate_requirement", "generate_component", "suggest_architecture"}

\* the call names a generation tool and gives its required argument
GenerationCall(c) ==
  /\ req[c].name \in {ServerLit.generate_requirement, ServerLit.generate_component,
                      ServerLit.suggest_architecture}
  /\ MissingRequired(req[c].name, req[c].arguments) = {}

\* C11: on a server without a backend (no API key, or another provider than
\* anthropic) a generation call with its description never reaches the backend
\* and is answered, without an error, with a text that is not empty.
FallbackWithoutBackend ==
  \A c \in Calls :
    (GenerationCall(c) /\ server.generator.client # "client") =>
      /\ pc[c] # "backend"
      /\ pc[c] = "done" =>
           /\ ~exc[c].raised
           /\ resp[c][1].text # <<>>

\* C12: on a server with a backend, the failure of the backend call is never
\* what a generation call is answered with: no answer is the error payload
\* of the connection error.
BackendFailureAbsorbed ==
  \A c \in Calls :
    (pc[c] = "done" /\ inv[c].op \in GenerationOps /\ server.generator.client = "client") =>
      resp[c] # ErrorPayload(GeneratorLit.connection_error)

\* the answer the template gives to the requirement call c
TemplateAnswer(c) ==
  TextPayload(requirement_report(
    requirement_fallback(req[c].arguments["description"].v,
                         Get(req[c].arguments, "safety_level", NoneVal),
                         Get(req[c].arguments, "priority", StrVal(ToolsLit.High)))))

\* C13: the answer of a requirement call tells how it was generated: what the
\* backend generated is never answered with the very text the template would
\* have been answered with.
ModeTold ==
  \A c \in Calls :
    (/\ pc[c] = "done" /\ inv[c].op = "generate_requirement"
     /\ server.generator.client = "client" /\ ~exc[c].raised) =>
      resp[c] # TemplateAnswer(c)

\* the number of places of s at which p occurs
Occurrences(s, p) ==
  Cardinality({i \in 1..(Len(s) - Len(p) + 1) : SubSeq(s, i, i + Len(p) - 1) = p})

\* the requirement call c was answered from the template
TemplateAnswered(c) ==
  /\ pc[c] = "done" /\ inv[c].op = "generate_requirement"
  /\ server.generator.client = "none"
  /\ resp[c] = TemplateAnswer(c)

\* C14: the block of the template holds the identifier made for the
\* description exactly once.
IdentifierOnce ==
  \A c \in Calls :
    TemplateAnswered(c) =>
      Occurrences(resp[c][1].text,
                  generate_requirement_id(req[c].arguments["description"].v)) = 1

\* the requirement call c, for "brake pressure must not exceed limit", was
\* answered from the template
BrakeTemplateAnswered(c) ==
  TemplateAnswered(c) /\ req[c].arguments["description"].v = In.brake

\* C15, as the code has it: the identifier for "brake pressure must not
\* exceed limit" is REQ-BP-001, the initials of "brake" and "pressure", and the
\* block of the template holds it.
BrakeIdentifier ==
  \A c \in Calls :
    BrakeTemplateAnswered(c) =>
      /\ generate_requirement_id(In.brake) = <<"R", "E", "Q", "-", "B", "P", "-", "0", "0", "1">>
      /\ Occurrences(resp[c][1].text, generate_requirement_id(In.brake)) = 1

\* C15, as the specification has it: the identifier is REQ-BM-001.
BrakeIdentifierAsSpecified ==
  \A c \in Calls :
    BrakeTemplateAnswered(c) =>
      Contains(resp[c][1].text, <<"R", "E", "Q", "-", "B", "M", "-", "0", "0", "1">>)

\* a requirement for the brake description was generated from the template
BrakeGenerated ==
  \E c \in Calls : BrakeTemplateAnswered(c)

----------------------------------------------------------------------------
(* the parsers of the output of the binary *)

\* the call has parsed metrics: _run_command returned to info, or to compile
\* with the status 0
MetricsParsed(c) ==
  /\ ran[c].how # ""
  /\ \/ inv[c].op = "info"
     \/ inv[c].op = "compile" /\ ran[c].result.returncode = 0

\* C16: _parse_metrics raises for no output of the binary, and the call that
\* parsed metrics is not answered with an error.
MetricsParseTotal ==
  \A c \in Calls :
    MetricsParsed(c) =>
      /\ ~parse_metrics(ran[c].result.stdout).raised
      /\ pc[c] = "done" => ~exc[c].raised

\* C17: the metrics a call parsed have all four fields, whatever the output
\* names: requirements, components, functions, traces.
MetricsComplete ==
  \A c \in Calls :
    (MetricsParsed(c) /\ ~parse_metrics(ran[c].result.stdout).raised) =>
      DOMAIN parse_metrics(ran[c].result.stdout).val
        = {"requirements", "components", "functions", "traces"}

\* C18: the coverage of the outcome of a trace analysis is between 0 and 100.
CoverageInRange ==
  \A c \in Calls :
    (ran[c].how # "" /\ inv[c].op = "trace_analysis") =>
      trace_analysis_ret(ran[c].result, BoolVal(TRUE)).val.coverage \in 0..100

\* the lines of text that hold the marker, whatever the case of their letters
MarkedLines(text, marker) ==
  SelectSeq(Split(text, "\n"), LAMBDA line : Contains(Lower(line), marker))

\* C19: the warnings of a validation are exactly the lines of stdout that
\* hold "warning:", and its errors exactly the lines of stderr that hold
\* "error:", in their order.
ExtractionExact ==
  \A c \in Calls :
    (ran[c].how # "" /\ inv[c].op = "validate") =>
      /\ validate_ret(ran[c].result).val.warnings
           = MarkedLines(ran[c].result.stdout, WrapperLit.warning)
      /\ validate_ret(ran[c].result).val.errors
           = MarkedLines(ran[c].result.stderr, WrapperLit.error)

\* the validation call c has its result, with a status that is not 0
ValidateFailed(c) ==
  /\ ran[c].how # "" /\ inv[c].op = "validate"
  /\ ran[c].result.returncode # 0

\* C20: a validation whose command ended with another status than 0 is not
\* valid, every line of stderr that holds "error:" is among its errors as it
\* stands, and the answer of the call shows it.
ValidateFailureListed ==
  \A c \in Calls :
    ValidateFailed(c) =>
      /\ ~validate_ret(ran[c].result).val.valid
      /\ \A i \in 1..Len(MarkedLines(ran[c].result.stderr, WrapperLit.error)) :
           /\ \E j \in 1..Len(validate_ret(ran[c].result).val.errors) :
                validate_ret(ran[c].result).val.errors[j]
                  = MarkedLines(ran[c].result.stderr, WrapperLit.error)[i]
           /\ pc[c] = "done" =>
                Contains(resp[c][1].text,
                         MarkedLines(ran[c].result.stderr, WrapperLit.error)[i])

\* the binary ended with the status 1 and "error: missing trace for REQ-001",
\* and the call is answered
ValidateFailedOnTrace ==
  \E c \in Calls :
    /\ ValidateFailed(c)
    /\ pc[c] = "done"
    /\ ran[c].result.returncode = 1
    /\ ran[c].result.stderr = In.err

----------------------------------------------------------------------------
(* what the facade makes of the result of the command *)

\* _run_command of the call c returned its result to the facade method of op
RanOp(c, op) ==
  ran[c].how # "" /\ inv[c].op = op

\* C21: an outcome of compile, validate or export_diagram that says no success
\* comes with errors: a text or a list that is not empty.
FailureHasErrors ==
  \A c \in Calls :
    /\ (RanOp(c, "compile") /\ ~compile_ret(ran[c].result).raised
          /\ ~compile_ret(ran[c].result).val.success) =>
         compile_ret(ran[c].result).val.errors # <<>>
    /\ (RanOp(c, "validate") /\ ~validate_ret(ran[c].result).val.valid) =>
         validate_ret(ran[c].result).val.errors # <<>>
    /\ (RanOp(c, "export_diagram")
          /\ ~export_diagram_ret(ran[c].result, <<>>).val.success) =>
         export_diagram_ret(ran[c].result, <<>>).val.error \notin {NoneVal, StrVal(<<>>)}

\* C22: the outcome of a compile or of an export that succeeded has an output
\* path, and the answer of the call shows that path.
OutputPathReported ==
  \A c \in Calls :
    /\ (RanOp(c, "compile") /\ ~compile_ret(ran[c].result).raised
          /\ compile_ret(ran[c].result).val.success) =>
         /\ "output_path" \in DOMAIN compile_ret(ran[c].result).val
         /\ pc[c] = "done" => ~Contains(resp[c][1].text, CoreLit.output \o CoreLit.na)
    /\ (RanOp(c, "export_diagram") /\ ran[c].result.returncode = 0) =>
         /\ export_diagram_ret(ran[c].result, inv[c].cmd[5]).val.output_path
              = StrVal(inv[c].cmd[5])
         /\ pc[c] = "done" => Contains(resp[c][1].text, inv[c].cmd[5])

\* C23: the answer to a call whose command ended with another status than 0
\* is not the answer the same output with the status 0 gets.
NonZeroIsFailure ==
  \A c \in Calls :
    (pc[c] = "done" /\ ran[c].how # "" /\ ran[c].result.returncode # 0) =>
      \A kb \in FileSizes :
        resp[c] # call_tool_return(
                    handler_after_run(server, inv[c].op, req[c].arguments,
                                      [ran[c].result EXCEPT !.returncode = 0], kb)).content

\* C24: when the command ended with another status than 0 and wrote to
\* stderr, the answer of the call holds every line the command wrote there.
StderrCarried ==
  \A c \in Calls :
    (pc[c] = "done" /\ ran[c].how # "" /\ ran[c].result.returncode # 0
       /\ inv[c].op \in {"compile", "export_diagram", "safety_check", "plm_sync"}) =>
      \A i \in 1..Len(Split(ran[c].result.stderr, "\n")) :
        Contains(resp[c][1].text, Split(ran[c].result.stderr, "\n")[i])

\* the subcommands of the binary
Subcommands ==
  { WrapperLit.build, WrapperLit.check, WrapperLit.trace, WrapperLit.export,
    WrapperLit.info, WrapperLit.safety, WrapperLit.plm }

\* the model path as the handler hands it to the facade
HandedPath(c) ==
  IF inv[c].op \in {"compile", "validate", "trace_analysis", "export_diagram", "info"}
    THEN resolve_path(server.workspace_root, req[c].arguments["model_path"].v)
    ELSE Path(req[c].arguments["model_path"].v)

\* the boolean arguments of the operation, each with its flag and its default
FlagsOf(op) ==
  CASE op = "compile" ->
         { [arg |-> "validate", flag |-> WrapperLit.validate, default |-> TRUE],
           [arg |-> "optimize", flag |-> WrapperLit.optimize, default |-> FALSE] }
    [] op = "validate" ->
         { [arg |-> "strict", flag |-> WrapperLit.strict, default |-> FALSE] }
    [] op = "trace_analysis" ->
         { [arg |-> "show_gaps", flag |-> WrapperLit.gaps, default |-> TRUE],
           [arg |-> "matrix", flag |-> WrapperLit.matrix, default |-> FALSE] }
    [] op = "info" ->
         { [arg |-> "detailed", flag |-> WrapperLit.detailed, default |-> FALSE] }
    [] op = "safety_check" ->
         { [arg |-> "generate_report", flag |-> WrapperLit.report, default |-> FALSE] }
    [] OTHER -> {}

\* the elements of the command after the path
FlagsIn(cmd) ==
  { cmd[i] : i \in 4..Len(cmd) }

\* C25: the command of a call is the binary, a subcommand and the model path,
\* in this order, and then the flags: the flag of a boolean argument is there
\* exactly when the argument is true.
CommandShape ==
  \A c \in Calls :
    inv[c].cmd # <<>> =>
      /\ Len(inv[c].cmd) >= 3
      /\ inv[c].cmd[1] = server.compiler.binary_path
      /\ inv[c].cmd[2] \in Subcommands
      /\ inv[c].cmd[3] = HandedPath(c)
      /\ \A f \in FlagsOf(inv[c].op) :
           Get(req[c].arguments, f.arg, BoolVal(f.default)).t = "bool" =>
             (f.flag \in FlagsIn(inv[c].cmd)
                <=> Get(req[c].arguments, f.arg, BoolVal(f.default)) = BoolVal(TRUE))
----------------------------------------------------------------------------
(* the configuration *)

\* the value of a setting by the layers: the environment when the variable
\* is set, else the file when it has the key, else the default
Layered(env_value, file, section, key, default) ==
  IF env_value # NoneVal THEN env_value
  ELSE IF section \in DOMAIN file /\ key \in DOMAIN file[section] THEN file[section][key]
  ELSE default

\* C26: the path of the binary, the timeout and the API key of the
\* configuration are the layered values, every other setting is its default,
\* and the binary the facade runs is the layered path.
FacadeFollowsLayers ==
  \A u \in ConfigFiles, e \in ConfigEnvironments :
    server = ArcLangMCPServer_init(In.workspace, u, e) =>
      /\ server.config.compiler.path
           = Layered(e.ARCLANG_BINARY, u, "compiler", "path", StrVal(ConfigLit.arclang))
      /\ server.config.compiler.timeout
           = Layered(NoneVal, u, "compiler", "timeout", IntVal(DefaultTimeout))
      /\ server.config.ai.api_key
           = Layered(e.ANTHROPIC_API_KEY, u, "ai", "api_key", NoneVal)
      /\ \A section \in {"workspace", "cache", "plm", "safety"} :
           server.config[section] = default_config(In.workspace, e)[section]
      /\ server.compiler.timeout = server.config.compiler.timeout
      /\ \A c \in Calls :
           inv[c].cmd # <<>> =>
             inv[c].cmd[1]
               = Layered(e.ARCLANG_BINARY, u, "compiler", "path", StrVal(ConfigLit.arclang)).v
----------------------------------------------------------------------------
(* what a call leaves behind, and the paths it hands to the binary *)

\* C27: no step of a call, whether it succeeds, fails or times out, changes
\* the server: the configuration, the binary path and the timeout of the
\* facade, the client of the generator and the workspace root stay as
\* __init__ set them.
ServerNeverChanges ==
  [][server' = server]_vars

\* a call is answered after its command timed out, by a server as __init__
\* builds it
AnsweredAfterTimeout ==
  \E c \in Calls :
    /\ pc[c] = "done" /\ ran[c].how = "timeout"
    /\ server \in {ArcLangMCPServer_init(In.workspace, u, e) :
                     u \in UserConfigs, e \in Environments}

\* C28: a call enters _run_command once at most, and not at all for a
\* semantic merge; it has the result of _run_command exactly when the one
\* invocation is over, whether the command ran, failed to start or timed out.
OneRunPerCall ==
  \A c \in Calls :
    /\ runs[c] <= 1
    /\ ran[c].how # "" => runs[c] = 1 /\ pc[c] \in {"done", "failed"}
    /\ (runs[c] = 1 /\ pc[c] \in {"done", "failed"}) => ran[c].how # ""
    /\ inv[c].op = "semantic_merge" => runs[c] = 0

\* the binary could not be started, and the call is answered after the one try
AnsweredAfterOneTry ==
  \E c \in Calls :
    /\ pc[c] = "done" /\ runs[c] = 1
    /\ ran[c].how = "launch" /\ ran[c].result.returncode = -1

\* the path without its last four characters (".arc") and with ".html"
HtmlBeside(path) ==
  SubSeq(path, 1, Len(path) - 4) \o WrapperLit.dot_html

\* C29: the command of an export names after -o the output_path of the call
\* when one is given, and else (none, or an empty one) the model path with
\* .html for .arc, whatever the format; the report of a successful export
\* shows that path.
ExportOutputPath ==
  \A c \in Calls :
    (inv[c].op = "export_diagram" /\ inv[c].cmd # <<>>) =>
      /\ inv[c].cmd[4] = WrapperLit.o
      /\ inv[c].cmd[5]
           = IF "output_path" \in DOMAIN req[c].arguments
                  /\ req[c].arguments["output_path"].v # <<>>
               THEN req[c].arguments["output_path"].v
               ELSE HtmlBeside(inv[c].cmd[3])
      /\ inv[c].cmd[7] = Get(req[c].arguments, "format", StrVal(ToolsLit.html)).v
      /\ (pc[c] = "done" /\ ran[c].how # "" /\ ran[c].result.returncode = 0) =>
           Contains(resp[c][1].text, CoreLit.export_output \o inv[c].cmd[5] \o CoreLit.nl)

\* an export to pdf with no output_path succeeded and is answered
PdfExportedToHtml ==
  \E c \in Calls :
    /\ inv[c].op = "export_diagram" /\ pc[c] = "done"
    /\ ran[c].how = "completed" /\ ran[c].result.returncode = 0
    /\ "output_path" \notin DOMAIN req[c].arguments
    /\ Get(req[c].arguments, "format", NoneVal) = StrVal(SchemaLit.pdf)
    /\ inv[c].cmd[5] = In.workspace \o <<"/">> \o HtmlBeside(In.rel_path)

\* C30: the core tools hand the binary the model path as it is given when it
\* is absolute, and after the workspace root when it is relative; the safety
\* and integration tools hand it as it is given in both cases.
PathAnchoring ==
  \A c \in Calls :
    inv[c].cmd # <<>> =>
      LET given == req[c].arguments["model_path"].v
      IN  IF inv[c].op \in {"compile", "validate", "trace_analysis", "export_diagram", "info"}
            THEN inv[c].cmd[3] = IF Head(given) = "/" THEN given
                                 ELSE server.workspace_root \o <<"/">> \o given
          ELSE IF inv[c].op = "plm_sync" THEN inv[c].cmd[4] = given
          ELSE inv[c].cmd[3] = given

\* a safety check of a relative path runs on that path, and a compile of a
\* relative path would run on the path in the workspace
RelativeSafetyPath ==
  \E c \in Calls :
    /\ inv[c].op = "safety_check" /\ inv[c].cmd # <<>>
    /\ req[c].arguments["model_path"].v = In.rel_path
    /\ inv[c].cmd[3] = In.rel_path
    /\ resolve_path(server.workspace_root, In.rel_path) # In.rel_path
====
